---- MODULE Spec2Model ----
(***************************************************************************)
(* The semantic-version engine of scripts/git-release.py: parse_version,   *)
(* format_version and bump_version, with the tag text as the state that a  *)
(* chain of bumps rewrites.                                                *)
(*                                                                         *)
(* A Python str is a sequence of one-character strings.  An Optional value *)
(* is a sequence of length 0 (None) or 1 (the value).                      *)
(***************************************************************************)
EXTENDS Integers, Sequences, FiniteSets, TLC

VARIABLES
    current,    \* the version text the next call reads (the latest tag)
    origin,     \* the version text the run started from
    lastCall,   \* the last call made: its function and its arguments
    result,     \* what the last call returned (None before any call / on exit)
    nBumps,     \* number of bump_version calls made so far
    preRun,     \* TRUE while every bump so far was `prerelease` with the default preid
    exitCode,   \* <<>> while the process runs, <<1>> after sys.exit(1)
    commits,    \* the list of commit dicts read from git log
    grouped,    \* None, or the dict group_commits returned
    changelog,  \* None, or the text format_markdown returned
    pc,         \* the position of the running command ("none": no command)
    env,        \* the options of the command and what git reports to it
    created,    \* the tags created by create_tag, in order
    pushed,     \* the refs pushed to origin, in order
    asked,      \* the questions asked on the console and their answers
    file,       \* None, or the text stored in the --output file
    parts       \* changelog_parts

vars == <<current, origin, lastCall, result, nBumps, preRun, exitCode,
          commits, grouped, changelog,
          pc, env, created, pushed, asked, file, parts>>

\* the state of the release manager and the state of the changelog generator
versionVars == <<current, origin, nBumps, preRun>>
logVars == <<commits, grouped, changelog>>
cmdVars == <<pc, env, created, pushed, asked, file, parts>>

-----------------------------------------------------------------------------
(* Bounds *)

\* longest chain of bump_version calls explored from one starting tag
MaxChain == 3

-----------------------------------------------------------------------------
(* Python values *)

None == <<>>
Some(x) == <<x>>

DIGITS == <<"0", "1", "2", "3", "4", "5", "6", "7", "8", "9">>

\* \d of the pattern, restricted to the ASCII digits
IsDigit == {DIGITS[i] : i \in 1..10}

\* [a-zA-Z] of the pattern
IsAlpha ==
    {"a", "b", "c", "d", "e", "f", "g", "h", "i", "j", "k", "l", "m",
     "n", "o", "p", "q", "r", "s", "t", "u", "v", "w", "x", "y", "z",
     "A", "B", "C", "D", "E", "F", "G", "H", "I", "J", "K", "L", "M",
     "N", "O", "P", "Q", "R", "S", "T", "U", "V", "W", "X", "Y", "Z"}

DigitVal(c) == (CHOOSE i \in 1..10 : DIGITS[i] = c) - 1

\* int(s) for a non-empty run of decimal digits (leading zeros allowed)
RECURSIVE int(_)
int(s) ==
    IF Len(s) = 0 THEN 0
    ELSE 10 * int(SubSeq(s, 1, Len(s) - 1)) + DigitVal(s[Len(s)])

\* f"{n}" for a non-negative int: decimal digits, no leading zeros
RECURSIVE str(_)
str(n) ==
    IF n < 10 THEN <<DIGITS[n + 1]>>
    ELSE str(n \div 10) \o <<DIGITS[(n % 10) + 1]>>

\* version.lstrip("v"): every leading "v" is removed, not only the first
RECURSIVE lstrip_v(_)
lstrip_v(s) ==
    IF Len(s) > 0 /\ s[1] = "v" THEN lstrip_v(Tail(s)) ELSE s

\* current.startswith("v")
startswith_v(s) == Len(s) > 0 /\ s[1] = "v"

-----------------------------------------------------------------------------
(* The pattern  ^(\d+)\.(\d+)\.(\d+)(?:-([a-zA-Z]+)\.?(\d+)?)?$           *)

\* greedy run: the position after the longest run of class C starting at i
Span(s, i, C) ==
    CHOOSE j \in i..(Len(s) + 1) :
        /\ \A k \in i..(j - 1) : s[k] \in C
        /\ (j = Len(s) + 1 \/ s[j] \notin C)

\* the character at position i is c
At(s, i, c) == i <= Len(s) /\ s[i] = c

\* `$`: the end of the string, or just before a newline that ends the string
AtEnd(s, i) == i = Len(s) + 1 \/ (i = Len(s) /\ s[i] = "\n")

NoMatch == [matched |-> FALSE]

\* re.match(pattern, version).  Every quantifier of the pattern is followed
\* by a character outside its class, so the greedy choice is the only one
\* that can lead to a match; the suffix group is tried first, then skipped.
re_match(s) ==
    LET a1 == Span(s, 1, IsDigit)
        b0 == a1 + 1
        b1 == Span(s, b0, IsDigit)
        c0 == b1 + 1
        c1 == Span(s, c0, IsDigit)
        l0 == c1 + 1
        l1 == Span(s, l0, IsAlpha)
        d0 == IF At(s, l1, ".") THEN l1 + 1 ELSE l1
        d1 == Span(s, d0, IsDigit)
    IN  IF ~(a1 > 1 /\ At(s, a1, ".")) THEN NoMatch
        ELSE IF ~(b1 > b0 /\ At(s, b1, ".")) THEN NoMatch
        ELSE IF ~(c1 > c0) THEN NoMatch
        ELSE IF At(s, c1, "-") /\ l1 > l0 /\ AtEnd(s, d1)
             THEN [matched |-> TRUE,
                   g1 |-> SubSeq(s, 1, a1 - 1),
                   g2 |-> SubSeq(s, b0, b1 - 1),
                   g3 |-> SubSeq(s, c0, c1 - 1),
                   g4 |-> Some(SubSeq(s, l0, l1 - 1)),
                   g5 |-> IF d1 > d0 THEN Some(SubSeq(s, d0, d1 - 1)) ELSE None]
        ELSE IF AtEnd(s, c1)
             THEN [matched |-> TRUE,
                   g1 |-> SubSeq(s, 1, a1 - 1),
                   g2 |-> SubSeq(s, b0, b1 - 1),
                   g3 |-> SubSeq(s, c0, c1 - 1),
                   g4 |-> None,
                   g5 |-> None]
        ELSE NoMatch

-----------------------------------------------------------------------------
(* parse_version, format_version, bump_version *)

\* sys.exit(1): the call does not return
Exit == [exit |-> TRUE]

\* the failure is handed back to the caller as a value
parse_version_error_value(version) ==
    LET match == re_match(lstrip_v(version))
    IN  IF ~match.matched THEN [exit |-> FALSE, error |-> "InvalidVersion"]
        ELSE [exit |-> FALSE,
              major |-> int(match.g1),
              minor |-> int(match.g2),
              patch |-> int(match.g3),
              pre_type |-> match.g4,
              pre_num |-> IF match.g5 # None THEN Some(int(match.g5[1])) ELSE None]

\* the number is tested after the conversion, so a written 0 becomes None
parse_version_zero_is_none(version) ==
    LET match == re_match(lstrip_v(version))
    IN  IF ~match.matched THEN Exit
        ELSE [exit |-> FALSE,
              major |-> int(match.g1),
              minor |-> int(match.g2),
              patch |-> int(match.g3),
              pre_type |-> match.g4,
              pre_num |-> IF match.g5 # None /\ int(match.g5[1]) # 0
                          THEN Some(int(match.g5[1])) ELSE None]

\* Returns (major, minor, patch, prerelease_type, prerelease_num), or exits.
parse_version(version) ==
    LET match == re_match(lstrip_v(version))
    IN  IF ~match.matched THEN Exit
        ELSE [exit |-> FALSE,
              major |-> int(match.g1),
              minor |-> int(match.g2),
              patch |-> int(match.g3),
              pre_type |-> match.g4,
              pre_num |-> IF match.g5 # None THEN Some(int(match.g5[1])) ELSE None]

\* `if pre_type:` -- neither None nor the empty string
Truthy(pre_type) == pre_type # None /\ pre_type[1] # <<>>

format_version(major, minor, patch, pre_type, pre_num, prefix) ==
    LET version == prefix \o str(major) \o <<".">> \o str(minor) \o <<".">> \o str(patch)
    IN  IF Truthy(pre_type)
        THEN IF pre_num # None
             THEN version \o <<"-">> \o pre_type[1] \o <<".">> \o str(pre_num[1])
             ELSE version \o <<"-">> \o pre_type[1]
        ELSE version

BumpType ==
    {"major", "minor", "patch", "premajor", "preminor", "prepatch", "prerelease"}

\* a missing number yields 0 instead of 1
new_pre_num_missing_zero(pre_num) ==
    IF pre_num # None THEN pre_num[1] + 1 ELSE 0

\* `(pre_num or 0) + 1`
new_pre_num(pre_num) ==
    (IF pre_num # None /\ pre_num[1] # 0 THEN pre_num[1] ELSE 0) + 1

\* the default prefix of format_version is used whatever the input
bump_prefix_default(cur) == <<"v">>

\* the prefix bump_version hands to format_version
bump_prefix(cur) == IF startswith_v(cur) THEN <<"v">> ELSE <<>>

\* minor and patch are not reset
bump_major_no_reset(p, prefix) ==
    format_version(p.major + 1, p.minor, p.patch, None, None, prefix)

\* BumpType.MAJOR
bump_major(p, prefix) ==
    format_version(p.major + 1, 0, 0, None, None, prefix)

\* patch is not reset
bump_minor_no_reset(p, prefix) ==
    format_version(p.major, p.minor + 1, p.patch, None, None, prefix)

\* BumpType.MINOR
bump_minor(p, prefix) ==
    format_version(p.major, p.minor + 1, 0, None, None, prefix)

\* patch is incremented also for a prerelease
bump_patch_always_increment(p, prefix) ==
    format_version(p.major, p.minor, p.patch + 1, None, None, prefix)

\* BumpType.PATCH: a prerelease is graduated, a release gets patch + 1
bump_patch(p, prefix) ==
    IF Truthy(p.pre_type)
    THEN format_version(p.major, p.minor, p.patch, None, None, prefix)
    ELSE format_version(p.major, p.minor, p.patch + 1, None, None, prefix)

\* BumpType.PREMAJOR
bump_premajor(p, preid, prefix) ==
    format_version(p.major + 1, 0, 0, Some(preid), Some(0), prefix)

\* minor is not incremented
bump_preminor_same_minor(p, preid, prefix) ==
    format_version(p.major, p.minor, 0, Some(preid), Some(0), prefix)

\* BumpType.PREMINOR
bump_preminor(p, preid, prefix) ==
    format_version(p.major, p.minor + 1, 0, Some(preid), Some(0), prefix)

\* the prerelease of the current version is carried over
bump_prepatch_keep_pre(p, preid, prefix) ==
    IF Truthy(p.pre_type)
    THEN format_version(p.major, p.minor, p.patch + 1, p.pre_type, p.pre_num, prefix)
    ELSE format_version(p.major, p.minor, p.patch + 1, Some(preid), Some(0), prefix)

\* BumpType.PREPATCH
bump_prepatch(p, preid, prefix) ==
    format_version(p.major, p.minor, p.patch + 1, Some(preid), Some(0), prefix)

\* a new prerelease is started every time
bump_prerelease_always_new(p, preid, prefix) ==
    format_version(p.major, p.minor, p.patch + 1, Some(preid), Some(0), prefix)

\* BumpType.PRERELEASE
bump_prerelease(p, preid, prefix) ==
    IF Truthy(p.pre_type)
    THEN format_version(p.major, p.minor, p.patch, p.pre_type,
                        Some(new_pre_num(p.pre_num)), prefix)
    ELSE format_version(p.major, p.minor, p.patch + 1, Some(preid), Some(0), prefix)

bump_version(cur, bump_type, preid) ==
    LET p == parse_version(cur)
        prefix == bump_prefix(cur)
    IN  IF p.exit THEN Exit
        ELSE [exit |-> FALSE, value |->
            CASE bump_type = "major" -> bump_major(p, prefix)
              [] bump_type = "minor" -> bump_minor(p, prefix)
              [] bump_type = "patch" -> bump_patch(p, prefix)
              [] bump_type = "premajor" -> bump_premajor(p, preid, prefix)
              [] bump_type = "preminor" -> bump_preminor(p, preid, prefix)
              [] bump_type = "prepatch" -> bump_prepatch(p, preid, prefix)
              [] bump_type = "prerelease" -> bump_prerelease(p, preid, prefix)
              [] OTHER -> cur]

-----------------------------------------------------------------------------
(* Text helpers of the commit code *)

UPPER ==
    <<"A", "B", "C", "D", "E", "F", "G", "H", "I", "J", "K", "L", "M",
      "N", "O", "P", "Q", "R", "S", "T", "U", "V", "W", "X", "Y", "Z">>

LOWER ==
    <<"a", "b", "c", "d", "e", "f", "g", "h", "i", "j", "k", "l", "m",
      "n", "o", "p", "q", "r", "s", "t", "u", "v", "w", "x", "y", "z">>

\* str.lower()
lower(s) ==
    [n \in 1..Len(s) |->
        IF \E u \in 1..26 : UPPER[u] = s[n]
        THEN LOWER[CHOOSE u \in 1..26 : UPPER[u] = s[n]]
        ELSE s[n]]

\* \w of the pattern, restricted to ASCII
IsWord == IsAlpha \cup IsDigit \cup {"_"}

\* \s of the pattern
IsSpace == {" ", "\t", "\n", "\r", "\f"}

\* the position after the longest run of characters other than c starting at i
SpanNot(s, i, c) ==
    CHOOSE j \in i..(Len(s) + 1) :
        /\ \A k \in i..(j - 1) : s[k] # c
        /\ (j = Len(s) + 1 \/ s[j] = c)

\* sub in s
Contains(s, sub) ==
    \E i \in 1..(Len(s) - Len(sub) + 1) : SubSeq(s, i, i + Len(sub) - 1) = sub

\* s.startswith(sub)
StartsWith(s, sub) == Len(s) >= Len(sub) /\ SubSeq(s, 1, Len(sub)) = sub

\* s.split(":")[0]: the text before the first colon, all of s without one
split_colon_0(s) == SubSeq(s, 1, SpanNot(s, 1, ":") - 1)

\* "\n".join(lines)
RECURSIVE join_lines(_)
join_lines(lines) ==
    IF Len(lines) = 0 THEN <<>>
    ELSE IF Len(lines) = 1 THEN lines[1]
    ELSE lines[1] \o <<"\n">> \o join_lines(Tail(lines))

-----------------------------------------------------------------------------
(* git-changelog.py: parse_commit, group_commits, format_markdown *)

\* The keys of COMMIT_TYPES in the order of the dict literal; a glyph is one
\* character, written as its code point.
COMMIT_TYPES ==
    <<[key |-> <<"f", "e", "a", "t">>,
       title |-> <<"F", "e", "a", "t", "u", "r", "e", "s">>, emoji |-> <<"U+2728">>],
      [key |-> <<"f", "i", "x">>,
       title |-> <<"B", "u", "g", " ", "F", "i", "x", "e", "s">>, emoji |-> <<"U+1F41B">>],
      [key |-> <<"d", "o", "c", "s">>,
       title |-> <<"D", "o", "c", "u", "m", "e", "n", "t", "a", "t", "i", "o", "n">>, emoji |-> <<"U+1F4DA">>],
      [key |-> <<"s", "t", "y", "l", "e">>,
       title |-> <<"S", "t", "y", "l", "e", "s">>, emoji |-> <<"U+1F48E">>],
      [key |-> <<"r", "e", "f", "a", "c", "t", "o", "r">>,
       title |-> <<"C", "o", "d", "e", " ", "R", "e", "f", "a", "c", "t", "o", "r", "i", "n", "g">>, emoji |-> <<"U+267B">>],
      [key |-> <<"p", "e", "r", "f">>,
       title |-> <<"P", "e", "r", "f", "o", "r", "m", "a", "n", "c", "e">>, emoji |-> <<"U+26A1">>],
      [key |-> <<"t", "e", "s", "t">>,
       title |-> <<"T", "e", "s", "t", "s">>, emoji |-> <<"U+1F9EA">>],
      [key |-> <<"b", "u", "i", "l", "d">>,
       title |-> <<"B", "u", "i", "l", "d", " ", "S", "y", "s", "t", "e", "m">>, emoji |-> <<"U+1F4E6">>],
      [key |-> <<"c", "i">>,
       title |-> <<"C", "I", "/", "C", "D">>, emoji |-> <<"U+1F527">>],
      [key |-> <<"c", "h", "o", "r", "e">>,
       title |-> <<"C", "h", "o", "r", "e", "s">>, emoji |-> <<"U+1F528">>],
      [key |-> <<"r", "e", "v", "e", "r", "t">>,
       title |-> <<"R", "e", "v", "e", "r", "t", "s">>, emoji |-> <<"U+23EA">>],
      [key |-> <<"s", "e", "c", "u", "r", "i", "t", "y">>,
       title |-> <<"S", "e", "c", "u", "r", "i", "t", "y">>, emoji |-> <<"U+1F512">>]>>

\* `commit_type in COMMIT_TYPES`
IsKnownType(commit_type) ==
    \E n \in 1..Len(COMMIT_TYPES) : COMMIT_TYPES[n].key = commit_type

other == <<"o", "t", "h", "e", "r">>

\* The stages of re.match(pattern, subject), last first; each takes the
\* positions found so far.
\* (.+)$ from position q: the text up to the end of the line
message_from(s, q) == SubSeq(s, q, SpanNot(s, q, "\n") - 1)

\* the positions in m0..m1 from which (.+)$ matches: \s* gives back
\* whitespace until the rest is a non-empty line that ends the string
message_starts(s, m0, m1) ==
    {q \in m0..m1 : SpanNot(s, q, "\n") > q /\ AtEnd(s, SpanNot(s, q, "\n"))}

\* the groups, when the type is non-empty, ":" follows at w1 and a message
\* matches; the greedy \s* keeps the longest whitespace that leaves one
match_groups(s, t1, s1, hasScope, hasBang, w1, starts) ==
    IF t1 > 1 /\ At(s, w1, ":") /\ starts # {}
    THEN [matched |-> TRUE,
          g1 |-> SubSeq(s, 1, t1 - 1),
          g2 |-> IF hasScope THEN Some(SubSeq(s, t1 + 1, s1 - 1)) ELSE None,
          g3 |-> IF hasBang THEN Some(<<"!">>) ELSE None,
          g4 |-> message_from(s, CHOOSE q \in starts : \A r \in starts : r <= q)]
    ELSE NoMatch

\* \s*:\s* with w1 the position after the whitespace before the colon
match_colon(s, t1, s1, hasScope, hasBang, w1) ==
    match_groups(s, t1, s1, hasScope, hasBang, w1,
                 message_starts(s, w1 + 1, Span(s, w1 + 1, IsSpace)))

\* (!)? at b0
match_bang(s, t1, s1, hasScope, b0) ==
    match_colon(s, t1, s1, hasScope, At(s, b0, "!"),
                Span(s, IF At(s, b0, "!") THEN b0 + 1 ELSE b0, IsSpace))

\* (?:\(([^)]+)\))? with s1 the end of the run of characters other than ")"
match_scope(s, t1, s1) ==
    match_bang(s, t1, s1,
               At(s, t1, "(") /\ s1 > t1 + 1 /\ At(s, s1, ")"),
               IF At(s, t1, "(") /\ s1 > t1 + 1 /\ At(s, s1, ")") THEN s1 + 1 ELSE t1)

\* ^(\w+) ends before t1
match_type(s, t1) == match_scope(s, t1, SpanNot(s, t1 + 1, ")"))

\* re.match(r"^(\w+)(?:\(([^)]+)\))?(!)?\s*:\s*(.+)$", subject).  The type,
\* the scope, the marker and the colon can match in one way only; the
\* whitespace after the colon gives characters back until `.+` has at least
\* one character and `$` holds after it.
re_match_commit(s) == match_type(s, Span(s, 1, IsWord))

\* the type is returned as written
parse_commit_no_lower(subject) ==
    LET match == re_match_commit(subject)
    IN  IF match.matched
        THEN [type |-> match.g1,
              scope |-> IF match.g2 # None THEN match.g2[1] ELSE <<>>,
              message |-> match.g4,
              breaking |-> match.g3 # None]
        ELSE [type |-> other, scope |-> <<>>, message |-> subject,
              breaking |-> FALSE]

\* Returns (type, scope, message, is_breaking)
parse_commit(subject) ==
    LET match == re_match_commit(subject)
    IN  IF match.matched
        THEN [type |-> lower(match.g1),
              scope |-> IF match.g2 # None THEN match.g2[1] ELSE <<>>,
              message |-> match.g4,
              breaking |-> match.g3 # None]
        ELSE [type |-> other, scope |-> <<>>, message |-> subject,
              breaking |-> FALSE]

\* the subject of the dict is replaced by the message
classified_subject_replaced(commit) ==
    LET c == parse_commit(commit.subject)
    IN  [hash |-> commit.hash, subject |-> c.message, type |-> c.type,
         scope |-> c.scope, message |-> c.message, breaking |-> c.breaking]

\* commit["type"] = ..., commit["scope"] = ..., commit["message"] = ...,
\* commit["breaking"] = ...: the dict of the caller is updated in place
classified(commit) ==
    LET c == parse_commit(commit.subject)
    IN  [hash |-> commit.hash, subject |-> commit.subject, type |-> c.type,
         scope |-> c.scope, message |-> c.message, breaking |-> c.breaking]

\* every type gets a bucket of its own
bucket_of_literal(commit_type) == commit_type

\* the bucket a commit of this type is appended to
bucket_of(commit_type) ==
    IF IsKnownType(commit_type) THEN commit_type ELSE other

\* the commit is put in front of its bucket
dict_append_front(d, key, commit) ==
    IF \E n \in 1..Len(d) : d[n].key = key
    THEN [n \in 1..Len(d) |->
            IF d[n].key = key
            THEN [key |-> key, items |-> <<commit>> \o d[n].items]
            ELSE d[n]]
    ELSE Append(d, [key |-> key, items |-> <<commit>>])

\* grouped[key].append(commit) on a defaultdict(list): a new key is added
\* after the existing keys
dict_append(d, key, commit) ==
    IF \E n \in 1..Len(d) : d[n].key = key
    THEN [n \in 1..Len(d) |->
            IF d[n].key = key
            THEN [key |-> key, items |-> Append(d[n].items, commit)]
            ELSE d[n]]
    ELSE Append(d, [key |-> key, items |-> <<commit>>])

\* grouped[key], or the empty list when the key is missing
dict_get(d, key) ==
    IF \E n \in 1..Len(d) : d[n].key = key
    THEN d[CHOOSE n \in 1..Len(d) : d[n].key = key].items
    ELSE <<>>

\* The loop of group_commits over commits[i..]; a bucket holds the updated
\* dicts themselves, which nothing changes after the loop.
RECURSIVE group_loop(_, _, _)
group_loop(cs, i, d) ==
    IF i > Len(cs) THEN d
    ELSE LET commit == classified(cs[i])
         IN  group_loop(cs, i + 1, dict_append(d, bucket_of(commit.type), commit))

\* the breaking commits are taken out of their buckets into one of their own
group_commits_breaking_apart(cs) ==
    LET all == [i \in 1..Len(cs) |-> classified(cs[i])]
        g == group_loop(cs, 1, <<>>)
    IN  [commits |-> all,
         grouped |-> [n \in 1..Len(g) |->
                        [key |-> g[n].key,
                         items |-> SelectSeq(g[n].items, LAMBDA c : ~c.breaking)]]
                     \o <<[key |-> <<"!">>,
                           items |-> SelectSeq(all, LAMBDA c : c.breaking)]>>]

group_commits(cs) ==
    [commits |-> [i \in 1..Len(cs) |-> classified(cs[i])],
     grouped |-> group_loop(cs, 1, <<>>)]

\* - {scope}{message} ({hash})
entry_line(commit) ==
    <<"-", " ">>
    \o (IF commit.scope # <<>>
        THEN <<"*", "*">> \o commit.scope \o <<":", "*", "*", " ">>
        ELSE <<>>)
    \o commit.message \o <<" ", "(">> \o commit.hash \o <<")">>

\* the entry shows the message instead of the subject
other_line_message(commit) ==
    <<"-", " ">> \o commit.message \o <<" ", "(">> \o commit.hash \o <<")">>

\* - {subject} ({hash})
other_line(commit) ==
    <<"-", " ">> \o commit.subject \o <<" ", "(">> \o commit.hash \o <<")">>

RECURSIVE entry_lines(_)
entry_lines(cs) ==
    IF Len(cs) = 0 THEN <<>> ELSE <<entry_line(cs[1])>> \o entry_lines(Tail(cs))

RECURSIVE other_lines(_)
other_lines(cs) ==
    IF Len(cs) = 0 THEN <<>> ELSE <<other_line(cs[1])>> \o other_lines(Tail(cs))

\* the commits of the list with commit.get("breaking")
RECURSIVE breaking_of(_)
breaking_of(cs) ==
    IF Len(cs) = 0 THEN <<>>
    ELSE (IF cs[1].breaking THEN <<cs[1]>> ELSE <<>>) \o breaking_of(Tail(cs))

\* the breaking commits collected bucket by bucket, in the order of
\* grouped_commits.values()
RECURSIVE collect_breaking(_)
collect_breaking(d) ==
    IF Len(d) = 0 THEN <<>>
    ELSE breaking_of(d[1].items) \o collect_breaking(Tail(d))

BREAKING_HEADING ==
    <<"#", "#", "#", " ", "U+26A0", "U+FE0F", " ">> \o <<"B", "R", "E", "A", "K", "I", "N", "G", " ", "C", "H", "A", "N", "G", "E", "S">>

OTHER_HEADING == <<"#", "#", "#", " ", "O", "t", "h", "e", "r", " ", "C", "h", "a", "n", "g", "e", "s">>

\* the sections of COMMIT_TYPES[n..], each only for a non-empty bucket
RECURSIVE type_sections(_, _)
type_sections(d, n) ==
    IF n > Len(COMMIT_TYPES) THEN <<>>
    ELSE LET t == COMMIT_TYPES[n]
             items == dict_get(d, t.key)
         IN  (IF items # <<>>
              THEN <<(<<"#", "#", "#", " ">> \o t.emoji \o <<" ">> \o t.title), <<>>>>
                   \o entry_lines(items) \o <<(<<>>)>>
              ELSE <<>>)
             \o type_sections(d, n + 1)

\* the breaking-changes section is written after the other sections
format_markdown_breaking_last(version, date, grouped_commits, compare_url) ==
    LET header ==
            IF compare_url # None /\ compare_url[1] # <<>>
            THEN <<"#", "#", " ", "[">> \o version \o <<"]", "(">> \o compare_url[1]
                 \o <<")", " ", "(">> \o date \o <<")">>
            ELSE <<"#", "#", " ">> \o version \o <<" ", "(">> \o date \o <<")">>
        breaking == collect_breaking(grouped_commits)
        others == dict_get(grouped_commits, other)
        lines ==
            <<header, <<>>>>
            \o type_sections(grouped_commits, 1)
            \o (IF others # <<>>
                THEN <<OTHER_HEADING, <<>>>> \o other_lines(others) \o <<(<<>>)>>
                ELSE <<>>)
            \o (IF breaking # <<>>
                THEN <<BREAKING_HEADING, <<>>>> \o entry_lines(breaking) \o <<(<<>>)>>
                ELSE <<>>)
    IN  join_lines(lines)

format_markdown(version, date, grouped_commits, compare_url) ==
    LET header ==
            IF compare_url # None /\ compare_url[1] # <<>>
            THEN <<"#", "#", " ", "[">> \o version \o <<"]", "(">> \o compare_url[1]
                 \o <<")", " ", "(">> \o date \o <<")">>
            ELSE <<"#", "#", " ">> \o version \o <<" ", "(">> \o date \o <<")">>
        breaking == collect_breaking(grouped_commits)
        others == dict_get(grouped_commits, other)
        lines ==
            <<header, <<>>>>
            \o (IF breaking # <<>>
                THEN <<BREAKING_HEADING, <<>>>> \o entry_lines(breaking) \o <<(<<>>)>>
                ELSE <<>>)
            \o type_sections(grouped_commits, 1)
            \o (IF others # <<>>
                THEN <<OTHER_HEADING, <<>>>> \o other_lines(others) \o <<(<<>>)>>
                ELSE <<>>)
    IN  join_lines(lines)

-----------------------------------------------------------------------------
(* git-changelog.py: main *)

\* s.split()[0] on the output of git log --format=%ai: the date before the
\* first blank
split_0(s) == SubSeq(s, 1, SpanNot(s, 1, " ") - 1)

\* table.add_row(commit_type, scope, message, commit["hash"]) for each
\* commit, under the columns Type, Scope, Message, Hash
table_rows(cs) ==
    [i \in 1..Len(cs) |->
        [Type |-> parse_commit(cs[i].subject).type,
         Scope |-> parse_commit(cs[i].subject).scope,
         Message |-> parse_commit(cs[i].subject).message,
         Hash |-> cs[i].hash]]

\* the records are listed last commit first
json_commits_reversed(cs) ==
    [i \in 1..Len(cs) |->
        [hash |-> cs[Len(cs) + 1 - i].hash,
         type |-> parse_commit(cs[Len(cs) + 1 - i].subject).type,
         scope |-> parse_commit(cs[Len(cs) + 1 - i].subject).scope,
         message |-> parse_commit(cs[Len(cs) + 1 - i].subject).message,
         breaking |-> parse_commit(cs[Len(cs) + 1 - i].subject).breaking]]

\* the "commits" list of the dict that json.dumps prints
json_commits(cs) ==
    [i \in 1..Len(cs) |->
        [hash |-> cs[i].hash,
         type |-> parse_commit(cs[i].subject).type,
         scope |-> parse_commit(cs[i].subject).scope,
         message |-> parse_commit(cs[i].subject).message,
         breaking |-> parse_commit(cs[i].subject).breaking]]

UNRELEASED == <<"U", "n", "r", "e", "l", "e", "a", "s", "e", "d">>

\* version = version_str or "Unreleased"
version_or_unreleased(version_str) ==
    IF version_str # None /\ version_str[1] # <<>> THEN version_str[1] ELSE UNRELEASED

\* The loop over enumerate(tags) from position i: a tag whose range
\* prev_tag..tag has commits appends its entry; tags[i].commits is what
\* get_commits_between(prev_tag, tag) returns and tags[i].ai what git log -1
\* --format=%ai prints.
RECURSIVE tag_parts(_, _)
tag_parts(tags, i) ==
    IF i > Len(tags) THEN <<>>
    ELSE (IF tags[i].commits # <<>>
          THEN <<format_markdown(tags[i].name, split_0(tags[i].ai),
                                 group_commits(tags[i].commits).grouped, None)>>
          ELSE <<>>)
         \o tag_parts(tags, i + 1)

\* the entry of the unreleased commits is added behind the entries of the tags
with_unreleased_last(changelog_parts, tags, head, today) ==
    IF tags # <<>> /\ head # <<>>
    THEN changelog_parts
         \o <<format_markdown(UNRELEASED, today, group_commits(head).grouped, None)>>
    ELSE changelog_parts

\* if tags: unreleased = get_commits_between(tags[0], "HEAD"); if unreleased:
\* changelog_parts.insert(0, ...)
with_unreleased(changelog_parts, tags, head, today) ==
    IF tags # <<>> /\ head # <<>>
    THEN <<format_markdown(UNRELEASED, today, group_commits(head).grouped, None)>>
         \o changelog_parts
    ELSE changelog_parts

\* existing.find("\n\n"): the 0-based index of the first blank line, -1
\* without one
find_blank(s) ==
    IF \E i \in 1..(Len(s) - 1) : s[i] = "\n" /\ s[i + 1] = "\n"
    THEN (CHOOSE i \in 1..(Len(s) - 1) :
            /\ s[i] = "\n" /\ s[i + 1] = "\n"
            /\ \A k \in 1..(i - 1) : ~(s[k] = "\n" /\ s[k + 1] = "\n")) - 1
    ELSE -1

\* Path.read_text(): the file is opened in text mode with newline=None, so
\* "\r\n" and a lone "\r" are read as "\n"
RECURSIVE read_text(_)
read_text(data) ==
    IF Len(data) = 0 THEN <<>>
    ELSE IF data[1] = "\r"
    THEN <<"\n">> \o read_text(IF Len(data) >= 2 /\ data[2] = "\n"
                               THEN SubSeq(data, 3, Len(data))
                               ELSE Tail(data))
    ELSE <<data[1]>> \o read_text(Tail(data))

\* Path.write_text(text) on Linux, where the tools run: "\n" is written as it is
write_text(text) == text

\* the text for an output file that exists: after the title block of a file
\* that starts with "# " and has a blank line, at its end without a blank
\* line, before it otherwise
prepend(existing, text) ==
    IF StartsWith(existing, <<"#", " ">>)
    THEN IF find_blank(existing) > 0
         THEN SubSeq(existing, 1, find_blank(existing) + 2) \o text \o <<"\n">>
              \o SubSeq(existing, find_blank(existing) + 3, Len(existing))
         ELSE existing \o <<"\n">> \o text
    ELSE text \o <<"\n">> \o existing

\* what a run of main leaves behind: the exit code, the locals commits and
\* grouped, changelog_parts, the joined text, what was printed and the file
main_done(code, cs, gr, ps, text, printed, f) ==
    [exitCode |-> code, commits |-> cs, grouped |-> gr, parts |-> ps,
     changelog |-> text, printed |-> printed, file |-> f]

\* lines 312-339: the text is written to --output, into the text of an
\* existing file, or printed
main_output(e, cs, gr, ps, text, f) ==
    IF e.output
    THEN main_done(None, cs, gr, ps, Some(text), None,
                   Some(write_text(IF f # None THEN prepend(read_text(f[1]), text)
                                   ELSE text)))
    ELSE main_done(None, cs, gr, ps, Some(text), Some([text |-> text]), f)

\* changelog = "\n".join(changelog_parts)
main_joined(e, cs, gr, ps, f) == main_output(e, cs, gr, ps, join_lines(ps), f)

\* lines 272-310: the formats of a single entry, g what group_commits returned
main_single(e, g, f) ==
    IF e.output_format = "table"
    THEN main_done(None, g.commits, Some(g.grouped), <<>>, None,
                   Some([table |-> table_rows(g.commits)]), f)
    ELSE IF e.output_format = "json"
    THEN main_done(None, g.commits, Some(g.grouped), <<>>, None,
                   Some([json |-> [version |-> version_or_unreleased(e.version_str),
                                   date |-> e.today,
                                   commits |-> json_commits(g.commits)]]), f)
    ELSE main_joined(e, g.commits, Some(g.grouped),
                    <<format_markdown(version_or_unreleased(e.version_str), e.today,
                                      g.grouped, None)>>, f)

\* main: cs is what get_commits_between(from_ref, to_ref) returns for a
\* single entry, e.tags and e.head what git reports for --all-tags, f the
\* output file.  With --all-tags the locals commits and grouped are not
\* followed.
main(e, cs, f) ==
    IF e.all_tags
    THEN main_joined(e, cs, None,
                     with_unreleased(tag_parts(e.tags, 1), e.tags, e.head, e.today), f)
    ELSE IF cs = <<>>
    THEN main_done(Some(0), cs, None, <<>>, None, None, f)
    ELSE main_single(e, group_commits(cs), f)

-----------------------------------------------------------------------------
(* git-release.py: analyze_commits *)

\* the two flags after the loop over commits[i..]
RECURSIVE analyze_loop(_, _, _, _)
analyze_loop(cs, i, has_breaking, has_feat) ==
    IF i > Len(cs) THEN [has_breaking |-> has_breaking, has_feat |-> has_feat]
    ELSE LET subject == lower(cs[i].subject)
         IN  analyze_loop(cs, i + 1,
                has_breaking \/ Contains(split_colon_0(subject), <<"!">>)
                             \/ Contains(subject, <<"b", "r", "e", "a", "k", "i", "n", "g">>),
                has_feat \/ StartsWith(subject, <<"f", "e", "a", "t">>))

analyze_commits(cs) ==
    LET flags == analyze_loop(cs, 1, FALSE, FALSE)
    IN  IF flags.has_breaking THEN "major"
        ELSE IF flags.has_feat THEN "minor"
        ELSE "patch"

-----------------------------------------------------------------------------
(* Inputs *)

\* the default of the preid parameter
alpha == <<"a", "l", "p", "h", "a">>

\* prerelease identifiers a caller passes (--preid takes any text)
Preids == {alpha, <<"r", "c", "1">>}

\* (major, minor, patch) of the starting tags; 9 carries into a second digit
StartCores == {<<0, 0, 0>>, <<1, 2, 3>>, <<9, 9, 9>>}

StartPrefixes == {<<>>, <<"v">>}

StartSuffixes ==
    {<<>>,
     <<"-">> \o alpha,
     <<"-">> \o alpha \o <<".", "0">>,
     <<"-">> \o alpha \o <<".", "9">>,
     <<"-", "b", ".", "1">>}

\* tags that parse_version accepts although they are not canonical
OddVersions ==
    {<<"v", "v", "1", ".", "2", ".", "3">>,
     <<"1", ".", "2", ".", "3", "-">> \o alpha \o <<"1">>,
     <<"v", "0", "1", ".", "2", ".", "3", "-">> \o alpha \o <<".">>}

\* starting tags: every one is accepted by parse_version
StartVersions ==
    {px \o str(c[1]) \o <<".">> \o str(c[2]) \o <<".">> \o str(c[3]) \o sx :
        px \in StartPrefixes, c \in StartCores, sx \in StartSuffixes}
    \cup OddVersions

-----------------------------------------------------------------------------
(* The chain of bumps: each new tag is the version the next bump reads *)

NoCall == [fn |-> "none"]

\* no commits were read and no changelog was made
NoLog == commits = <<>> /\ grouped = None /\ changelog = None

\* no command is running
NoCmd ==
    /\ pc = "none"
    /\ env = [cmd |-> "none"]
    /\ created = <<>>
    /\ pushed = <<>>
    /\ asked = <<>>
    /\ file = <<>>
    /\ parts = <<>>

Running == exitCode = None

Init ==
    /\ current \in StartVersions
    /\ origin = current
    /\ lastCall = NoCall
    /\ result = None
    /\ nBumps = 0
    /\ preRun = TRUE
    /\ exitCode = None
    /\ NoLog
    /\ NoCmd

\* bump_version(current, bump_type, preid); the tag it returns is created
\* and becomes the current version, a failed parse ends the process
Bump(bump_type, preid) ==
    /\ Running
    /\ nBumps < MaxChain
    /\ LET r == bump_version(current, bump_type, preid)
       IN  /\ lastCall' = [fn |-> "bump_version", current |-> current,
                           bump_type |-> bump_type, preid |-> preid]
           /\ IF r.exit
              THEN /\ exitCode' = Some(1)
                   /\ result' = None
                   /\ current' = current
              ELSE /\ exitCode' = None
                   /\ result' = Some(r.value)
                   /\ current' = r.value
    /\ nBumps' = nBumps + 1
    /\ preRun' = (preRun /\ bump_type = "prerelease" /\ preid = alpha)
    /\ UNCHANGED <<origin, logVars, cmdVars>>

Next == \E bump_type \in BumpType, preid \in Preids : Bump(bump_type, preid)

Spec == Init /\ [][Next]_vars

-----------------------------------------------------------------------------
(* parse_version applied to arbitrary text *)

TextPrefixes == {<<>>, <<"v">>, <<"v", "v">>, <<"V">>}

\* a component: missing, one digit, leading zero, two digits, not a number
TextMajors == {<<>>, <<"1">>, <<"0", "7">>, <<"1", "0">>, <<"x">>}
TextMinors == {<<>>, <<"2">>, <<"b">>}
TextPatches == {<<>>, <<"3">>, <<"1", "2">>, <<"3", "c">>}

TextDots == {<<".">>, <<>>}

TextSuffixes ==
    {<<>>,
     <<"-">>,
     <<"-", "a">>,
     <<"-", "a", ".">>,
     <<"-", "a", ".", "0">>,
     <<"-", "r", "C", ".", "1", "2">>,
     <<"-", "a", "1">>,
     <<"-", "a", ".", "b">>,
     <<"-", "a", ".", "1", ".", "2">>,
     <<"-", "1">>,
     <<"-", ".", "1">>,
     <<".", "4">>,
     <<"-", "a", "-", "b">>,
     <<" ">>,
     <<"\n">>,
     <<"-", "a", ".", "0", "\n">>}

Texts ==
    {px \o a \o d1 \o b \o d2 \o c \o sx :
        px \in TextPrefixes, a \in TextMajors, d1 \in TextDots,
        b \in TextMinors, d2 \in TextDots, c \in TextPatches,
        sx \in TextSuffixes}

InitParse ==
    /\ current \in Texts
    /\ origin = current
    /\ lastCall = NoCall
    /\ result = None
    /\ nBumps = 0
    /\ preRun = TRUE
    /\ exitCode = None
    /\ NoLog
    /\ NoCmd

\* parse_version(current): returns the five components, or prints the
\* error and ends the process with sys.exit(1)
ParseVersion ==
    /\ Running
    /\ LET p == parse_version(current)
       IN  /\ lastCall' = [fn |-> "parse_version", version |-> current]
           /\ IF p.exit
              THEN /\ exitCode' = Some(1)
                   /\ result' = None
              ELSE /\ exitCode' = None
                   /\ result' = Some(p)
    /\ UNCHANGED <<current, origin, nBumps, preRun, logVars, cmdVars>>

NextParse == ParseVersion

SpecParse == InitParse /\ [][NextParse]_vars

-----------------------------------------------------------------------------
(* format_version applied to the versions of the data model, and parsed back *)

FormatNums == {0, 10}

FormatIdents == {<<"a">>, <<"r", "C">>, <<"r", "c", "1">>}

FormatPreNums == {None, Some(0), Some(1), Some(12)}

\* SemanticVersion: a prerelease number only comes with an identifier
SemVers ==
    [major : FormatNums, minor : FormatNums, patch : FormatNums,
     pre_type : {None}, pre_num : {None}]
    \cup
    [major : FormatNums, minor : FormatNums, patch : FormatNums,
     pre_type : {Some(id) : id \in FormatIdents}, pre_num : FormatPreNums]

FormatPrefixes == {<<>>, <<"v">>}

InitFormat ==
    /\ current = <<>>
    /\ origin = <<>>
    /\ lastCall = NoCall
    /\ result = None
    /\ nBumps = 0
    /\ preRun = TRUE
    /\ exitCode = None
    /\ NoLog
    /\ NoCmd

\* format_version(major, minor, patch, pre_type, pre_num, prefix); the text
\* it returns is what the next parse_version reads
FormatVersion(v, prefix) ==
    /\ Running
    /\ LET text == format_version(v.major, v.minor, v.patch, v.pre_type,
                                  v.pre_num, prefix)
       IN  /\ lastCall' = [fn |-> "format_version", v |-> v, prefix |-> prefix]
           /\ result' = Some(text)
           /\ current' = text
    /\ UNCHANGED <<origin, nBumps, preRun, exitCode, logVars, cmdVars>>

NextFormat ==
    \/ \E v \in SemVers, prefix \in FormatPrefixes : FormatVersion(v, prefix)
    \/ ParseVersion

SpecFormat == InitFormat /\ [][NextFormat]_vars

-----------------------------------------------------------------------------
(* The commits read from git log *)

\* most commits in one list
MaxCommits == 3

\* parts[0][:8]: the length of a commit hash
HASH_LEN == 8

\* the hash of the i-th commit of a list
Hash(i) == <<"a", "1", "b", "2", "c", "3", "d">> \o str(i)

\* the lists of n commits, lo <= n <= MaxCommits, with subjects of S
CommitLists(S, lo) ==
    UNION {{[i \in 1..n |-> [hash |-> Hash(i), subject |-> f[i]]] :
                f \in [1..n -> S]} : n \in lo..MaxCommits}

\* the release manager is not used
NoVersion == current = <<>> /\ origin = <<>> /\ nBumps = 0 /\ preRun = TRUE

-----------------------------------------------------------------------------
(* parse_commit applied to arbitrary subjects *)

SubjectTypes == {<<>>, <<"f", "e", "a", "t">>, <<"F", "i", "x">>, <<"w", "i", "p", "_", "2">>}

SubjectScopes == {<<>>, <<"(", "a", "p", "i", ")">>, <<"(", ")">>, <<"(", "a", ":", "b", ")">>, <<"(", "a", "p", "i">>, <<"(", "a", ")", "(", "b", ")">>}

SubjectMarkers == {<<>>, <<"!">>}

SubjectSpaces == {<<>>, <<" ">>, <<" ", "\t">>}

SubjectColons == {<<>>, <<":">>}

SubjectMessages == {<<>>, <<"x">>, <<"a", "d", "d", " ", "i", "t">>, <<"b", ":", " ", "c">>, <<"x", " ">>}

Subjects ==
    {ty \o sc \o mk \o w1 \o co \o w2 \o msg :
        ty \in SubjectTypes, sc \in SubjectScopes, mk \in SubjectMarkers,
        w1 \in {<<>>, <<" ">>}, co \in SubjectColons, w2 \in SubjectSpaces,
        msg \in SubjectMessages}
    \cup {<<"f", "e", "a", "t", "(", "a", "p", "i", ")", "!", ":", " ", "a", "d", "d", " ", "e", "n", "d", "p", "o", "i", "n", "t">>,
          <<"u", "p", "d", "a", "t", "e", " ", "r", "e", "a", "d", "m", "e">>}

InitCommit ==
    /\ commits \in {<<[hash |-> Hash(1), subject |-> subject]>> : subject \in Subjects}
    /\ grouped = None
    /\ changelog = None
    /\ lastCall = NoCall
    /\ result = None
    /\ exitCode = None
    /\ NoVersion
    /\ NoCmd

\* parse_commit(commit["subject"]) for the i-th commit
ParseCommit(i) ==
    /\ Running
    /\ lastCall' = [fn |-> "parse_commit", subject |-> commits[i].subject]
    /\ result' = Some(parse_commit(commits[i].subject))
    /\ UNCHANGED <<versionVars, logVars, exitCode, cmdVars>>

NextCommit == \E i \in 1..Len(commits) : ParseCommit(i)

SpecCommit == InitCommit /\ [][NextCommit]_vars

-----------------------------------------------------------------------------
(* analyze_commits applied to lists of commits *)

SuggestSubjects ==
    {<<"f", "e", "a", "t", ":", " ", "a", "d", "d", " ", "l", "o", "g", "i", "n">>,
     <<"f", "i", "x", "!", ":", " ", "c", "r", "a", "s", "h", " ", "o", "n", " ", "n", "u", "l", "l">>,
     <<"u", "p", "d", "a", "t", "e", " ", "r", "e", "a", "d", "m", "e">>,
     <<"u", "p", "d", "a", "t", "e", " ", "r", "e", "a", "d", "m", "e", "!">>,
     <<"f", "e", "a", "t", "u", "r", "e", ":", " ", "x">>,
     <<"f", "i", "x", "(", "a", ":", "b", ")", "!", ":", " ", "y">>,
     <<"f", "i", "x", ":", " ", "B", "r", "e", "a", "k", "i", "n", "g", " ", "a", "p", "i">>,
     <<"d", "o", "c", "s", ":", " ", "r">>,
     <<"F", "e", "a", "t", "(", "u", "i", ")", ":", " ", "z">>}

InitSuggest ==
    /\ commits \in CommitLists(SuggestSubjects, 0)
    /\ grouped = None
    /\ changelog = None
    /\ lastCall = NoCall
    /\ result = None
    /\ exitCode = None
    /\ NoVersion
    /\ NoCmd

\* analyze_commits(commits)
AnalyzeCommits ==
    /\ Running
    /\ lastCall' = [fn |-> "analyze_commits"]
    /\ result' = Some(analyze_commits(commits))
    /\ UNCHANGED <<versionVars, logVars, exitCode, cmdVars>>

NextSuggest == AnalyzeCommits

SpecSuggest == InitSuggest /\ [][NextSuggest]_vars

-----------------------------------------------------------------------------
(* One markdown changelog entry: group_commits, then format_markdown *)

LogSubjects ==
    {<<"f", "i", "x", "!", ":", " ", "c", "r", "a", "s", "h", " ", "o", "n", " ", "n", "u", "l", "l">>,
     <<"f", "e", "a", "t", "(", "a", "p", "i", ")", "!", ":", " ", "a", "d", "d", " ", "e", "n", "d", "p", "o", "i", "n", "t">>,
     <<"w", "i", "p", "!", ":", " ", "y">>,
     <<"f", "i", "x", ":", " ", "b">>}

\* --version, or "Unreleased"
LogVersions == {<<"v", "1", ".", "0", ".", "0">>, <<"U", "n", "r", "e", "l", "e", "a", "s", "e", "d">>}

LogDate == <<"2", "0", "2", "4", "-", "0", "1", "-", "0", "1">>

\* main groups and renders only when the range has commits
\* two longer logs with commits of every known type, newest first
TypeLogs ==
    {<<[hash |-> Hash(1), subject |-> <<"s", "e", "c", "u", "r", "i", "t", "y", ":", " ", "s">>],
      [hash |-> Hash(2), subject |-> <<"r", "e", "v", "e", "r", "t", ":", " ", "r">>],
      [hash |-> Hash(3), subject |-> <<"c", "h", "o", "r", "e", ":", " ", "c">>],
      [hash |-> Hash(4), subject |-> <<"c", "i", ":", " ", "i">>],
      [hash |-> Hash(5), subject |-> <<"b", "u", "i", "l", "d", ":", " ", "u">>],
      [hash |-> Hash(6), subject |-> <<"t", "e", "s", "t", ":", " ", "t">>],
      [hash |-> Hash(7), subject |-> <<"p", "e", "r", "f", ":", " ", "p">>],
      [hash |-> Hash(8), subject |-> <<"r", "e", "f", "a", "c", "t", "o", "r", ":", " ", "f">>],
      [hash |-> Hash(9), subject |-> <<"s", "t", "y", "l", "e", ":", " ", "y">>]>>,
     <<[hash |-> Hash(1), subject |-> <<"u", "p", "d", "a", "t", "e", " ", "r", "e", "a", "d", "m", "e">>],
      [hash |-> Hash(2), subject |-> <<"s", "t", "y", "l", "e", ":", " ", "y">>],
      [hash |-> Hash(3), subject |-> <<"d", "o", "c", "s", ":", " ", "d">>],
      [hash |-> Hash(4), subject |-> <<"f", "i", "x", "!", ":", " ", "c", "r", "a", "s", "h", " ", "o", "n", " ", "n", "u", "l", "l">>],
      [hash |-> Hash(5), subject |-> <<"f", "e", "a", "t", ":", " ", "a", "d", "d", " ", "l", "o", "g", "i", "n">>],
      [hash |-> Hash(6), subject |-> <<"s", "e", "c", "u", "r", "i", "t", "y", ":", " ", "s">>]>>}

InitLog ==
    /\ commits \in CommitLists(LogSubjects, 1) \cup TypeLogs
    /\ grouped = None
    /\ changelog = None
    /\ lastCall = NoCall
    /\ result = None
    /\ exitCode = None
    /\ NoVersion
    /\ NoCmd

\* grouped = group_commits(commits): the dicts of the list get their four
\* new keys and the buckets are returned
GroupCommits ==
    /\ Running
    /\ grouped = None
    /\ commits # <<>>
    /\ LET g == group_commits(commits)
       IN  /\ commits' = g.commits
           /\ grouped' = Some(g.grouped)
    /\ lastCall' = [fn |-> "group_commits"]
    /\ UNCHANGED <<versionVars, changelog, result, exitCode, cmdVars>>

\* changelog_parts.append(format_markdown(version, date, grouped))
FormatMarkdown(version) ==
    /\ Running
    /\ grouped # None
    /\ changelog = None
    /\ changelog' = Some(format_markdown(version, LogDate, grouped[1], None))
    /\ lastCall' = [fn |-> "format_markdown", version |-> version]
    /\ UNCHANGED <<versionVars, commits, grouped, result, exitCode, cmdVars>>

NextLog ==
    \/ GroupCommits
    \/ \E version \in LogVersions : FormatMarkdown(version)

SpecLog == InitLog /\ [][NextLog]_vars

-----------------------------------------------------------------------------
(* One run of git-changelog.py *)

\* the options that the three kinds of run share
ChangelogEnv(all_tags, output_format, version_str, output, tags, head) ==
    [cmd |-> "changelog", all_tags |-> all_tags, output_format |-> output_format,
     version_str |-> version_str, output |-> output, tags |-> tags,
     head |-> head, today |-> LogDate]

\* what main leaves behind becomes the state
MainDone(out) ==
    /\ exitCode' = out.exitCode
    /\ commits' = out.commits
    /\ grouped' = out.grouped
    /\ parts' = out.parts
    /\ changelog' = out.changelog
    /\ result' = out.printed
    /\ file' = out.file

Main ==
    /\ Running
    /\ pc = "main"
    /\ MainDone(main(env, commits, file))
    /\ pc' = "done"
    /\ lastCall' = [fn |-> "main", existing |-> file]
    /\ UNCHANGED <<versionVars, env, created, pushed, asked>>

\* the state before main runs, apart from commits, env and file
InitMain ==
    /\ pc = "main"
    /\ grouped = None
    /\ changelog = None
    /\ parts = <<>>
    /\ created = <<>>
    /\ pushed = <<>>
    /\ asked = <<>>
    /\ lastCall = NoCall
    /\ result = None
    /\ exitCode = None
    /\ NoVersion

(* --format table and --format json *)

ListSubjects ==
    {<<"f", "e", "a", "t", "(", "a", "p", "i", ")", "!", ":", " ", "a", "d", "d", " ", "e", "n", "d", "p", "o", "i", "n", "t">>,
     <<"w", "i", "p", ":", " ", "x">>,
     <<"u", "p", "d", "a", "t", "e", " ", "r", "e", "a", "d", "m", "e">>}

InitList ==
    /\ commits \in CommitLists(ListSubjects, 0)
    /\ env \in {ChangelogEnv(FALSE, fmt, v, FALSE, <<>>, <<>>) :
                    fmt \in {"table", "json"},
                    v \in {None, Some(<<"v", "1", ".", "0", ".", "0">>)}}
    /\ file = None
    /\ InitMain

NextList == Main

SpecList == InitList /\ [][NextList]_vars

(* --output: the changelog is written to a file *)

WriteSubjects ==
    {<<"f", "i", "x", ":", " ", "b">>,
     <<"w", "i", "p", "!", ":", " ", "y">>}

\* the bytes of the output file before the run; None: it does not exist
Files ==
    {None,
     Some(<<"#", " ", "T", "\n", "\n", "#", "#", " ", "o", "\n", "\n", "-", " ", "a", "\n">>),
     Some(<<"#", " ", "T", "\n", "#", "#", " ", "o", "\n">>),
     Some(<<"#", " ", "T", "\n", "i", "n", "t", "r", "o", "\n", "\n", "#", "#", " ", "o", "\n">>),
     Some(<<"#", "#", " ", "o", "\n", "\n", "-", " ", "a", "\n">>),
     Some(<<>>),
     Some(<<"#", " ", "T", "\r", "\n", "\r", "\n", "#", "#", " ", "o", "\r", "\n">>),
     Some(<<"#", " ", "T">>),
     Some(<<"\n", "\n", "#", " ", "T", "\n", "\n", "x">>),
     Some(<<"#", "T", "\n", "\n", "x">>)}

InitWrite ==
    /\ commits \in CommitLists(WriteSubjects, 0)
    /\ env \in {ChangelogEnv(FALSE, "markdown", None, output, <<>>, <<>>) :
                    output \in BOOLEAN}
    /\ file \in Files
    /\ InitMain

NextWrite == Main

SpecWrite == InitWrite /\ [][NextWrite]_vars

(* --all-tags *)

\* most tags in the repository
MaxTags == 3

\* the k-th oldest tag and what git log -1 --format=%ai prints for it
TagName(k) == <<"v">> \o str(k) \o <<".", "0", ".", "0">>

TagDate(k) ==
    <<"2", "0", "2", "3", "-", "0", "1", "-", "0">> \o str(k)
    \o <<" ", "1", "0", ":", "0", "0", ":", "0", "0", " ", "+", "0", "1", "0", "0">>

\* the commits of one range: none, one, two
RangeChoices ==
    {<<>>,
     <<[hash |-> Hash(1), subject |-> <<"f", "i", "x", ":", " ", "b">>]>>,
     <<[hash |-> Hash(1), subject |-> <<"f", "e", "a", "t", "(", "a", "p", "i", ")", "!", ":", " ", "a", "d", "d", " ", "e", "n", "d", "p", "o", "i", "n", "t">>],
       [hash |-> Hash(2), subject |-> <<"w", "i", "p", "!", ":", " ", "y">>]>>}

\* what get_tags returns, newest first, each tag with the commits of its range
TagLists ==
    UNION {{[i \in 1..n |-> [name |-> TagName(n + 1 - i), ai |-> TagDate(n + 1 - i),
                             commits |-> f[i]]] :
                f \in [1..n -> RangeChoices]} : n \in 0..MaxTags}

InitAllTags ==
    /\ commits = <<>>
    /\ env \in {ChangelogEnv(TRUE, "markdown", None, output, tags, head) :
                    output \in BOOLEAN, tags \in TagLists, head \in RangeChoices}
    /\ file = None
    /\ InitMain

NextAllTags == Main

SpecAllTags == InitAllTags /\ [][NextAllTags]_vars

-----------------------------------------------------------------------------
(* git-release.py: the bump command *)

\* `current_version or "v0.0.0"`; no tag and the empty text are both <<>>
or_default(current_version) ==
    IF current_version = <<>> THEN <<"v", "0", ".", "0", ".", "0">>
    ELSE current_version

\* `if result.stdout.strip()`: the output holds more than whitespace
has_output(stdout) ==
    \E i \in 1..Len(stdout) : stdout[i] \notin {" ", "\n", "\r", "\t"}

\* the arguments create_tag hands to git tag
create_tag(version, message, sign) ==
    [flag |-> IF sign THEN "-s" ELSE "-a",
     version |-> version,
     message |-> IF Truthy(message) THEN message[1]
                 ELSE <<"R", "e", "l", "e", "a", "s", "e", " ">> \o version]

\* --dry-run is not looked at
bump_after_version_no_dry_run(e) ==
    IF ~e.yes THEN "confirm" ELSE "status"

\* where bump goes on once the new version is printed
bump_after_version(e) ==
    IF e.dry_run THEN "done"
    ELSE IF ~e.yes THEN "confirm"
    ELSE "status"

\* run_git(["tag", ...]): git either creates the tag or fails, and a failure
\* ends the process; to is where the command goes on after the tag
CreateTag(args, to) ==
    /\ lastCall' = [fn |-> "create_tag", args |-> args]
    /\ \E ok \in BOOLEAN :
          IF ok
          THEN /\ created' = Append(created, args)
               /\ pc' = to
               /\ exitCode' = exitCode
          ELSE /\ created' = created
               /\ pc' = "exit"
               /\ exitCode' = Some(1)

\* a question of Confirm.ask and its answer
Confirm(question, yes_pc) ==
    \E answer \in BOOLEAN :
        /\ asked' = Append(asked, [question |-> question, answer |-> answer])
        /\ pc' = IF answer THEN yes_pc ELSE "done"

\* the latest tag is read and the new version is computed and shown
BumpVersion ==
    /\ Running
    /\ pc = "bump"
    /\ LET current_version == or_default(current)
           new_version == bump_version(current_version, env.bump_type, env.preid)
       IN  /\ lastCall' = [fn |-> "bump_version", current |-> current_version,
                           bump_type |-> env.bump_type, preid |-> env.preid]
           /\ IF new_version.exit
              THEN /\ exitCode' = Some(1)
                   /\ result' = None
                   /\ pc' = "exit"
              ELSE /\ exitCode' = exitCode
                   /\ result' = Some(new_version.value)
                   /\ pc' = bump_after_version(env)
    /\ UNCHANGED <<versionVars, logVars, env, created, pushed, asked, file, parts>>

\* Confirm.ask("Create tag ...?")
BumpConfirm ==
    /\ Running
    /\ pc = "confirm"
    /\ Confirm("Create tag", "status")
    /\ UNCHANGED <<versionVars, logVars, lastCall, result, exitCode,
                   env, created, pushed, file, parts>>

\* git status --porcelain: with uncommitted changes and without --yes the
\* user is asked once more
BumpStatus ==
    /\ Running
    /\ pc = "status"
    /\ lastCall' = [fn |-> "run_git", args |-> "status"]
    /\ IF has_output(env.status) /\ ~env.yes
       THEN Confirm("Continue anyway", "tag")
       ELSE pc' = "tag" /\ asked' = asked
    /\ UNCHANGED <<versionVars, logVars, result, exitCode,
                   env, created, pushed, file, parts>>

\* create_tag(new_version, message, sign)
BumpTag ==
    /\ Running
    /\ pc = "tag"
    /\ CreateTag(create_tag(result[1], env.message, env.sign), "done")
    /\ UNCHANGED <<versionVars, logVars, result, env, pushed, asked, file, parts>>

\* what git describe prints: no tag, tags with and without prefix, a
\* prerelease, and a tag that is no version
LatestTags ==
    {<<>>,
     <<"v", "1", ".", "2", ".", "3">>,
     <<"1", ".", "2", ".", "3", "-">> \o alpha,
     <<"r", "e", "l", "-", "1">>}

\* -m is absent, empty or a text
Messages == {None, Some(<<>>), Some(<<"g", "o">>)}

\* the output of git status --porcelain
StatusOutputs == {<<>>, <<" ", "M", " ", "a", "\n">>, <<"?", "?", " ", "b", "\n">>}

InitBump ==
    /\ current \in LatestTags
    /\ origin = current
    /\ nBumps = 0
    /\ preRun = TRUE
    /\ pc = "bump"
    /\ env \in [cmd : {"bump"}, bump_type : BumpType, preid : {alpha},
                message : Messages, sign : BOOLEAN, dry_run : BOOLEAN,
                yes : BOOLEAN, status : StatusOutputs]
    /\ created = <<>>
    /\ pushed = <<>>
    /\ asked = <<>>
    /\ file = <<>>
    /\ parts = <<>>
    /\ lastCall = NoCall
    /\ result = None
    /\ exitCode = None
    /\ NoLog

NextBump == BumpVersion \/ BumpConfirm \/ BumpStatus \/ BumpTag

SpecBump == InitBump /\ [][NextBump]_vars

-----------------------------------------------------------------------------
(* git-release.py: the release wizard *)

\* the range is not narrowed by the tag
get_commits_since_tag_whole_log(tag, log, tagged) ==
    IF log = <<>> THEN Exit
    ELSE [exit |-> FALSE, value |->
            [i \in 1..Len(log) |->
                [hash |-> SubSeq(log[i].hash, 1, HASH_LEN),
                 subject |-> log[i].subject]]]

\* git log "<tag>..HEAD" or git log "HEAD", newest first: log is the history
\* of HEAD and its last `tagged` commits are reachable from the tag; git log
\* fails on a repository without commits, and run_git then ends the process
get_commits_since_tag(tag, log, tagged) ==
    IF log = <<>> THEN Exit
    ELSE [exit |-> FALSE, value |->
            [i \in 1..(Len(log) - (IF tag # <<>> THEN tagged ELSE 0)) |->
                [hash |-> SubSeq(log[i].hash, 1, HASH_LEN),
                 subject |-> log[i].subject]]]

\* the latest tag and the commits since are read; nothing to release ends
\* the wizard
ReleaseRead ==
    /\ Running
    /\ pc = "release"
    /\ LET read == get_commits_since_tag(current, env.log, env.tagged)
       IN  /\ lastCall' = [fn |-> "get_commits_since_tag", tag |-> current]
           /\ IF read.exit
              THEN /\ exitCode' = Some(1)
                   /\ commits' = commits
                   /\ pc' = "exit"
              ELSE /\ exitCode' = exitCode
                   /\ commits' = read.value
                   /\ pc' = IF read.value = <<>> THEN "done" ELSE "prompt"
    /\ UNCHANGED <<versionVars, grouped, changelog, result,
                   env, created, pushed, asked, file, parts>>

\* Prompt.ask returns one of the choices, the suggested type by default;
\* the new version is computed from the tag or from v0.0.0
ReleasePrompt ==
    /\ Running
    /\ pc = "prompt"
    /\ \E bump_type \in BumpType :
        LET base_version == or_default(current)
            new_version == bump_version(base_version, bump_type, alpha)
        IN  /\ asked' = Append(asked, [question |-> "Select bump type",
                                       default |-> analyze_commits(commits),
                                       answer |-> bump_type])
            /\ lastCall' = [fn |-> "bump_version", current |-> base_version,
                            bump_type |-> bump_type, preid |-> alpha]
            /\ IF new_version.exit
               THEN /\ exitCode' = Some(1)
                    /\ result' = None
                    /\ pc' = "exit"
               ELSE /\ exitCode' = exitCode
                    /\ result' = Some(new_version.value)
                    /\ pc' = "confirm"
    /\ UNCHANGED <<versionVars, logVars, env, created, pushed, file, parts>>

\* Confirm.ask("Create this release?")
ReleaseConfirm ==
    /\ Running
    /\ pc = "confirm"
    /\ Confirm("Create this release?", "tag")
    /\ UNCHANGED <<versionVars, logVars, lastCall, result, exitCode,
                   env, created, pushed, file, parts>>

\* create_tag(new_version)
ReleaseTag ==
    /\ Running
    /\ pc = "tag"
    /\ CreateTag(create_tag(result[1], None, FALSE),
                 IF env.push THEN "push" ELSE "done")
    /\ UNCHANGED <<versionVars, logVars, result, env, pushed, asked, file, parts>>

\* run_git(["push", "origin", new_version]): a failed push ends the process
ReleasePush ==
    /\ Running
    /\ pc = "push"
    /\ lastCall' = [fn |-> "run_git", args |-> "push", ref |-> result[1]]
    /\ \E ok \in BOOLEAN :
          IF ok
          THEN /\ pushed' = Append(pushed, result[1])
               /\ pc' = "done"
               /\ exitCode' = exitCode
          ELSE /\ pushed' = pushed
               /\ pc' = "exit"
               /\ exitCode' = Some(1)
    /\ UNCHANGED <<versionVars, logVars, result, env, created, asked, file, parts>>

\* the history of HEAD with full hashes, and the number of its commits the
\* latest tag reaches: none without a tag, the tagged commit at least with one
InitRelease ==
    /\ current \in LatestTags
    /\ origin = current
    /\ nBumps = 0
    /\ preRun = TRUE
    /\ pc = "release"
    /\ \E cs \in CommitLists({<<"f", "e", "a", "t", ":", " ", "a">>,
                              <<"f", "i", "x", "!", ":", " ", "b">>,
                              <<"u", "p", "d", "a", "t", "e">>}, 0) :
       \E tagged \in 0..Len(cs) :
       \E push \in BOOLEAN :
          /\ (current = <<>>) = (tagged = 0)
          /\ env = [cmd |-> "release", push |-> push, tagged |-> tagged,
                    log |-> [i \in 1..Len(cs) |->
                               [hash |-> cs[i].hash \o <<"e", "4", "f", "5">>,
                                subject |-> cs[i].subject]]]
    /\ created = <<>>
    /\ pushed = <<>>
    /\ asked = <<>>
    /\ file = <<>>
    /\ parts = <<>>
    /\ lastCall = NoCall
    /\ result = None
    /\ exitCode = None
    /\ NoLog

NextRelease ==
    ReleaseRead \/ ReleasePrompt \/ ReleaseConfirm \/ ReleaseTag \/ ReleasePush

SpecRelease == InitRelease /\ [][NextRelease]_vars

-----------------------------------------------------------------------------
(* Properties of bump_version, checked on the chain of bumps (Spec) *)

\* the last call was bump_version with this policy on a version that
\* parse_version accepts
Bumped(bump_type) ==
    /\ lastCall.fn = "bump_version"
    /\ lastCall.bump_type = bump_type
    /\ ~parse_version(lastCall.current).exit

\* the components of the version the last bump read
Cur == parse_version(lastCall.current)

\* the texts of a version, with and without the optional prefix;
\* pre is <<>>, <<ident>> or <<ident, num>>
VersionTexts(major, minor, patch, pre) ==
    LET core == str(major) \o <<".">> \o str(minor) \o <<".">> \o str(patch)
        tail == IF Len(pre) = 0 THEN <<>>
                ELSE IF Len(pre) = 1 THEN <<"-">> \o pre[1]
                ELSE <<"-">> \o pre[1] \o <<".">> \o str(pre[2])
    IN  {core \o tail, <<"v">> \o core \o tail}

\* the last call returned one of the texts of this version
Returned(major, minor, patch, pre) ==
    result # None /\ result[1] \in VersionTexts(major, minor, patch, pre)

\* C1: a patch bump of a version with a prerelease returns the same
\* (major, minor, patch) without the prerelease; a patch bump of a version
\* without one returns (major, minor, patch + 1) without a prerelease.
C1_PatchBump ==
    Bumped("patch") =>
        IF Cur.pre_type # None
        THEN Returned(Cur.major, Cur.minor, Cur.patch, <<>>)
        ELSE Returned(Cur.major, Cur.minor, Cur.patch + 1, <<>>)

C1_Witness ==
    /\ Bumped("patch")
    /\ Cur.pre_type # None
    /\ result # None

\* C2: a prerelease bump of a version with a prerelease keeps (major, minor,
\* patch) and the identifier and returns number old + 1, a missing number
\* counting as 0; of a version without one it returns (major, minor,
\* patch + 1) with prerelease (preid, 0).
C2_PrereleaseBump ==
    Bumped("prerelease") =>
        IF Cur.pre_type # None
        THEN Returned(Cur.major, Cur.minor, Cur.patch,
                      <<Cur.pre_type[1],
                        (IF Cur.pre_num = None THEN 0 ELSE Cur.pre_num[1]) + 1>>)
        ELSE Returned(Cur.major, Cur.minor, Cur.patch + 1, <<lastCall.preid, 0>>)

C2_Witness ==
    /\ Bumped("prerelease")
    /\ Cur.pre_type # None
    /\ Cur.pre_num = None
    /\ result # None

\* C3: after n >= 1 prerelease bumps in a row (identifier alpha) from a
\* version x.y.z without a prerelease, the current version is
\* x.y.(z+1)-alpha.(n-1); from 1.2.3 the first two are 1.2.4-alpha.0 and
\* 1.2.4-alpha.1.
C3_PrereleaseChain ==
    LET o == parse_version(origin)
    IN  (preRun /\ nBumps >= 1 /\ o.pre_type = None) =>
            /\ exitCode = None
            /\ current \in VersionTexts(o.major, o.minor, o.patch + 1,
                                        <<alpha, nBumps - 1>>)
            /\ (origin = <<"1", ".", "2", ".", "3">> /\ nBumps = 1) =>
                    current = <<"1", ".", "2", ".", "4", "-">> \o alpha \o <<".", "0">>
            /\ (origin = <<"1", ".", "2", ".", "3">> /\ nBumps = 2) =>
                    current = <<"1", ".", "2", ".", "4", "-">> \o alpha \o <<".", "1">>

C3_Witness ==
    /\ origin = <<"1", ".", "2", ".", "3">>
    /\ preRun
    /\ nBumps = 2
    /\ lastCall.fn = "bump_version"

\* C4: a major bump returns (major + 1, 0, 0) without a prerelease, whether
\* or not the current version has one.
C4_MajorBump ==
    Bumped("major") => Returned(Cur.major + 1, 0, 0, <<>>)

C4_Witness ==
    /\ Bumped("major")
    /\ Cur.pre_type # None
    /\ Cur.minor > 0
    /\ result # None

\* C5: a minor bump returns (major, minor + 1, 0) without a prerelease,
\* whether or not the current version has one.
C5_MinorBump ==
    Bumped("minor") => Returned(Cur.major, Cur.minor + 1, 0, <<>>)

C5_Witness ==
    /\ Bumped("minor")
    /\ Cur.pre_type # None
    /\ Cur.patch > 0
    /\ result # None

\* C6: premajor, preminor and prepatch return (major+1,0,0), (major,minor+1,0)
\* and (major,minor,patch+1), each with prerelease (preid, 0); the prerelease
\* of the current version is discarded.
C6_PreBumps ==
    /\ Bumped("premajor") =>
            Returned(Cur.major + 1, 0, 0, <<lastCall.preid, 0>>)
    /\ Bumped("preminor") =>
            Returned(Cur.major, Cur.minor + 1, 0, <<lastCall.preid, 0>>)
    /\ Bumped("prepatch") =>
            Returned(Cur.major, Cur.minor, Cur.patch + 1, <<lastCall.preid, 0>>)

C6_Witness ==
    /\ Bumped("prepatch")
    /\ Cur.pre_type # None
    /\ Cur.pre_type[1] # lastCall.preid
    /\ Cur.pre_num # None
    /\ Cur.pre_num[1] > 0
    /\ result # None

\* C9: the text bump_version returns is accepted by parse_version.
C9_BumpOutputParses ==
    (lastCall.fn = "bump_version" /\ result # None) =>
        ~parse_version(result[1]).exit

\* C10: the text bump_version returns starts with "v" exactly when the text
\* it read does, and what follows the optional "v" starts with a digit.
C10_PrefixPreserved ==
    (lastCall.fn = "bump_version" /\ result # None) =>
        LET out == result[1]
            body == IF startswith_v(out) THEN Tail(out) ELSE out
        IN  /\ startswith_v(out) <=> startswith_v(lastCall.current)
            /\ Len(body) > 0
            /\ body[1] \in IsDigit

C10_Witness ==
    /\ lastCall.fn = "bump_version"
    /\ result # None
    /\ ~startswith_v(lastCall.current)

-----------------------------------------------------------------------------
(* Properties of parse_version and format_version *)

\* the text is MAJOR.MINOR.PATCH[-IDENT[.NUM]]: three non-empty runs of
\* digits, then optionally "-" and a non-empty run of letters, then
\* optionally "." and a non-empty run of digits
IsCore(s) ==
    \E i \in 2..Len(s), j \in 4..Len(s), k \in 6..(Len(s) + 1) :
        /\ i + 1 < j /\ j + 1 < k
        /\ s[i] = "." /\ s[j] = "."
        /\ \A n \in 1..(i - 1) : s[n] \in IsDigit
        /\ \A n \in (i + 1)..(j - 1) : s[n] \in IsDigit
        /\ \A n \in (j + 1)..(k - 1) : s[n] \in IsDigit
        /\ \/ k = Len(s) + 1
           \/ /\ s[k] = "-"
              /\ \E m \in (k + 2)..(Len(s) + 1) :
                    /\ \A n \in (k + 1)..(m - 1) : s[n] \in IsAlpha
                    /\ \/ m = Len(s) + 1
                       \/ /\ s[m] = "."
                          /\ m < Len(s)
                          /\ \A n \in (m + 1)..Len(s) : s[n] \in IsDigit

\* the grammar [v]MAJOR.MINOR.PATCH[-IDENT[.NUM]]
InGrammar(t) == IsCore(t) \/ (startswith_v(t) /\ IsCore(Tail(t)))

\* C7: parse_version ends with the invalid-version error on every text that
\* is not in the grammar [v]MAJOR.MINOR.PATCH[-IDENT[.NUM]].
C7_RejectsUngrammatical ==
    (lastCall.fn = "parse_version" /\ ~InGrammar(lastCall.version)) =>
        exitCode = Some(1)

\* C8: parsing the text format_version returned for a version yields the
\* components of that version.
C8_RoundTrip ==
    [][(lastCall.fn = "format_version" /\ lastCall'.fn = "parse_version") =>
            /\ result' # None
            /\ result'[1].major = lastCall.v.major
            /\ result'[1].minor = lastCall.v.minor
            /\ result'[1].patch = lastCall.v.patch
            /\ result'[1].pre_type = lastCall.v.pre_type
            /\ result'[1].pre_num = lastCall.v.pre_num]_vars

\* the pattern of parse_version does not match the text
Rejected(t) == ~re_match(lstrip_v(t)).matched

ReadsAs(t, r) ==
    LET s == IF startswith_v(t) THEN Tail(t) ELSE t
    IN  \E i \in 2..Len(s), j \in 4..Len(s), k \in 6..(Len(s) + 1) :
            /\ i + 1 < j /\ j + 1 < k
            /\ s[i] = "." /\ s[j] = "."
            /\ \A n \in 1..(i - 1) : s[n] \in IsDigit
            /\ \A n \in (i + 1)..(j - 1) : s[n] \in IsDigit
            /\ \A n \in (j + 1)..(k - 1) : s[n] \in IsDigit
            /\ r.major = int(SubSeq(s, 1, i - 1))
            /\ r.minor = int(SubSeq(s, i + 1, j - 1))
            /\ r.patch = int(SubSeq(s, j + 1, k - 1))
            /\ \/ k = Len(s) + 1 /\ r.pre_type = None /\ r.pre_num = None
               \/ /\ k <= Len(s)
                  /\ s[k] = "-"
                  /\ \E m \in (k + 2)..(Len(s) + 1) :
                        /\ \A n \in (k + 1)..(m - 1) : s[n] \in IsAlpha
                        /\ r.pre_type = Some(SubSeq(s, k + 1, m - 1))
                        /\ \/ m = Len(s) + 1 /\ r.pre_num = None
                           \/ /\ m < Len(s)
                              /\ s[m] = "."
                              /\ \A n \in (m + 1)..Len(s) : s[n] \in IsDigit
                              /\ r.pre_num = Some(int(SubSeq(s, m + 1, Len(s))))

\* C12: for a text in the grammar parse_version returns the decimal values
\* of the three components, IDENT (None without a suffix) and NUM (None when
\* not written, 0 when written as 0).
C12_ParsedComponents ==
    (lastCall.fn = "parse_version" /\ InGrammar(lastCall.version)) =>
        (result # None /\ ReadsAs(lastCall.version, result[1]))

C12_Witness ==
    /\ lastCall.fn = "parse_version"
    /\ lastCall.version = <<"v", "1", "0", ".", "2", ".", "3", "-", "a", ".", "0">>
    /\ result # None

-----------------------------------------------------------------------------
(* Properties of parse_commit, checked on SpecCommit *)

\* types as written and lower-cased, scopes, whitespace and messages that
\* the form type[(scope)][!]: message is composed of
FormTypes ==
    {<<<<"f", "e", "a", "t">>, <<"f", "e", "a", "t">>>>,
     <<<<"F", "i", "x">>, <<"f", "i", "x">>>>,
     <<<<"w", "i", "p", "_", "2">>, <<"w", "i", "p", "_", "2">>>>}

FormScopes == {None, Some(<<"a", "p", "i">>), Some(<<"a", ":", "b">>)}

FormSpaces == {<<>>, <<" ">>, <<" ", "\t">>}

FormMessages == {<<"x">>, <<"a", "d", "d", " ", "i", "t">>, <<"b", ":", " ", "c">>, <<"x", " ">>, <<"a", "d", "d", " ", "e", "n", "d", "p", "o", "i", "n", "t">>}

FormSubject(ty, sc, bang, ws, msg) ==
    ty \o (IF sc # None THEN <<"(">> \o sc[1] \o <<")">> ELSE <<>>)
       \o (IF bang THEN <<"!">> ELSE <<>>) \o <<":">> \o ws \o msg

\* C13: for a subject type[(scope)][!]: message parse_commit returns the
\* type lower-cased, the scope inside the parentheses ("" without one), the
\* text after the colon and its whitespace, and breaking exactly when "!"
\* stands before the colon.
C13_ParseCommitForm ==
    lastCall.fn = "parse_commit" =>
        \A ty \in FormTypes, sc \in FormScopes, bang \in BOOLEAN,
           ws \in FormSpaces, msg \in FormMessages :
            lastCall.subject = FormSubject(ty[1], sc, bang, ws, msg) =>
                /\ result[1].type = ty[2]
                /\ result[1].scope = (IF sc # None THEN sc[1] ELSE <<>>)
                /\ result[1].message = msg
                /\ result[1].breaking = bang

C13_Witness ==
    /\ lastCall.fn = "parse_commit"
    /\ lastCall.subject = <<"f", "e", "a", "t", "(", "a", "p", "i", ")", "!", ":", " ", "a", "d", "d", " ", "e", "n", "d", "p", "o", "i", "n", "t">>
    /\ result # None
    /\ result[1].breaking

\* the subject is type[(scope)][!]: message -- word characters, optionally
\* a non-empty scope without ")" in parentheses, optionally "!", the colon,
\* and a non-empty rest on the same line
InCommitGrammar(s) ==
    \E t \in 1..Len(s) :
        /\ \A n \in 1..t : s[n] \in IsWord
        /\ \E p \in t..Len(s) :
            /\ \/ p = t
               \/ /\ p > t + 2
                  /\ s[t + 1] = "("
                  /\ s[p] = ")"
                  /\ \A n \in (t + 2)..(p - 1) : s[n] # ")"
            /\ \E b \in {p, p + 1} :
                /\ b = p + 1 => (b <= Len(s) /\ s[b] = "!")
                /\ b + 2 <= Len(s)
                /\ s[b + 1] = ":"
                /\ \A n \in (b + 2)..Len(s) : s[n] # "\n"

\* C14: for every subject outside the grammar parse_commit returns type
\* "other", scope "", the whole subject as message and breaking = false.
C14_UngrammaticalIsOther ==
    (lastCall.fn = "parse_commit" /\ ~InCommitGrammar(lastCall.subject)) =>
        /\ result # None
        /\ result[1].type = other
        /\ result[1].scope = <<>>
        /\ result[1].message = lastCall.subject
        /\ result[1].breaking = FALSE

-----------------------------------------------------------------------------
(* Properties of analyze_commits, checked on SpecSuggest *)

\* the subject is in the grammar and has "!" immediately before the colon
\* of its header
HeaderBang(s) ==
    /\ InCommitGrammar(s)
    /\ \E b \in 2..(Len(s) - 1) :
        /\ s[b] = "!"
        /\ s[b + 1] = ":"
        /\ \/ \A n \in 1..(b - 1) : s[n] \in IsWord
           \/ /\ s[b - 1] = ")"
              /\ \E t \in 1..(b - 4) :
                    /\ \A n \in 1..t : s[n] \in IsWord
                    /\ s[t + 1] = "("
                    /\ \A n \in (t + 2)..(b - 2) : s[n] # ")"

\* the subject contains "breaking" in any letter case
SaysBreaking(s) == Contains(lower(s), <<"b", "r", "e", "a", "k", "i", "n", "g">>)

\* the lower-cased first word before "(" or ":" is feat
TypeIsFeat(s) ==
    \E k \in 2..Len(s) :
        /\ s[k] \in {"(", ":"}
        /\ \A n \in 1..(k - 1) : s[n] \in IsWord
        /\ lower(SubSeq(s, 1, k - 1)) = <<"f", "e", "a", "t">>

\* C15: analyze_commits returns major exactly when some subject has "!"
\* immediately before its header colon or contains "breaking".
C15_MajorIffBreaking ==
    lastCall.fn = "analyze_commits" =>
        (result[1] = "major" <=>
            \E i \in 1..Len(commits) :
                HeaderBang(commits[i].subject) \/ SaysBreaking(commits[i].subject))

\* C16: when analyze_commits does not return major, it returns minor exactly
\* when the type of some subject is feat, and patch otherwise.
C16_MinorIffFeat ==
    (lastCall.fn = "analyze_commits" /\ result[1] # "major") =>
        /\ result[1] = "minor" <=>
                \E i \in 1..Len(commits) : TypeIsFeat(commits[i].subject)
        /\ result[1] \in {"minor", "patch"}

\* C17: when parse_commit classifies some commit of the list as breaking,
\* analyze_commits returns major for the list.
C17_BreakingImpliesMajor ==
    (/\ lastCall.fn = "analyze_commits"
     /\ \E i \in 1..Len(commits) : parse_commit(commits[i].subject).breaking) =>
        result[1] = "major"

-----------------------------------------------------------------------------
(* Properties of the markdown changelog, checked on SpecLog *)

\* text.split("\n")
RECURSIVE SplitLines(_)
SplitLines(text) ==
    LET e == SpanNot(text, 1, "\n")
    IN  IF e > Len(text) THEN <<text>>
        ELSE <<SubSeq(text, 1, e - 1)>> \o SplitLines(SubSeq(text, e + 1, Len(text)))

\* the lines from position n up to the next empty line
RECURSIVE LinesUntilEmpty(_, _)
LinesUntilEmpty(lines, n) ==
    IF n > Len(lines) \/ lines[n] = <<>> THEN <<>>
    ELSE <<lines[n]>> \o LinesUntilEmpty(lines, n + 1)

\* the entries of the section with this heading: the lines that follow the
\* heading and its empty line; none when the heading is not in the text
SectionEntries(text, heading) ==
    LET lines == SplitLines(text)
    IN  IF \E n \in 1..Len(lines) : lines[n] = heading
        THEN LinesUntilEmpty(lines, (CHOOSE n \in 1..Len(lines) : lines[n] = heading) + 2)
        ELSE <<>>

\* the hash an entry ends with: "... (hash)"
EntryHash(line) == SubSeq(line, Len(line) - HASH_LEN, Len(line) - 1)

EntryHashes(lines) == [n \in 1..Len(lines) |-> EntryHash(lines[n])]

CommitHashes(cs) == [n \in 1..Len(cs) |-> cs[n].hash]

\* the number of entries with this hash
CountHash(lines, hash) == Cardinality({n \in 1..Len(lines) : EntryHash(lines[n]) = hash})

\* parse_commit classifies the commit as breaking
IsBreaking(c) == parse_commit(c.subject).breaking

\* the twelve known types, and the bucket a commit lands in
KnownTypes == {COMMIT_TYPES[n].key : n \in 1..Len(COMMIT_TYPES)}

BucketKey(c) ==
    LET ty == parse_commit(c.subject).type
    IN  IF ty \in KnownTypes THEN ty ELSE other

\* the heading of the section of a bucket
HeadingOf(key) ==
    IF key = other THEN OTHER_HEADING
    ELSE LET t == COMMIT_TYPES[CHOOSE n \in 1..Len(COMMIT_TYPES) : COMMIT_TYPES[n].key = key]
         IN  <<"#", "#", "#", " ">> \o t.emoji \o <<" ">> \o t.title

\* the hashes of the commits of a bucket, in the order of the input
InputOrder(key) ==
    CommitHashes(SelectSeq(commits, LAMBDA c : BucketKey(c) = key))

\* C18: the entries of the breaking-changes section are the breaking commits
\* in the order of the input.
C18_BreakingInInputOrder ==
    changelog # None =>
        EntryHashes(SectionEntries(changelog[1], BREAKING_HEADING))
            = CommitHashes(SelectSeq(commits, IsBreaking))

\* C19: the commits of a bucket, and the entries of its section, are in the
\* order of the input.
C19_GroupingStable ==
    \A key \in KnownTypes \cup {other} :
        /\ grouped # None =>
                CommitHashes(dict_get(grouped[1], key)) = InputOrder(key)
        /\ changelog # None =>
                EntryHashes(SectionEntries(changelog[1], HeadingOf(key))) = InputOrder(key)

C19_Witness ==
    /\ changelog # None
    /\ Len(commits) = 3
    /\ commits[1].subject = <<"f", "i", "x", "!", ":", " ", "c", "r", "a", "s", "h", " ", "o", "n", " ", "n", "u", "l", "l">>
    /\ commits[2].subject = <<"f", "e", "a", "t", "(", "a", "p", "i", ")", "!", ":", " ", "a", "d", "d", " ", "e", "n", "d", "p", "o", "i", "n", "t">>
    /\ commits[3].subject = <<"f", "i", "x", ":", " ", "b">>

\* C20: a breaking commit has one entry in the breaking-changes section and
\* one in the section of its bucket; the breaking-changes section has no
\* entry of a commit that is not breaking.
C20_BreakingListedTwice ==
    changelog # None =>
        LET breaking == SectionEntries(changelog[1], BREAKING_HEADING)
        IN  /\ \A i \in 1..Len(commits) :
                IsBreaking(commits[i]) =>
                    /\ CountHash(breaking, commits[i].hash) = 1
                    /\ CountHash(SectionEntries(changelog[1],
                                    HeadingOf(BucketKey(commits[i]))),
                                 commits[i].hash) = 1
            /\ \A n \in 1..Len(breaking) :
                \E i \in 1..Len(commits) :
                    /\ commits[i].hash = EntryHash(breaking[n])
                    /\ IsBreaking(commits[i])

C20_Witness ==
    /\ changelog # None
    /\ \E i \in 1..Len(commits) :
            commits[i].subject = <<"w", "i", "p", "!", ":", " ", "y">>
    /\ \E i \in 1..Len(commits) :
            commits[i].subject = <<"f", "e", "a", "t", "(", "a", "p", "i", ")", "!", ":", " ", "a", "d", "d", " ", "e", "n", "d", "p", "o", "i", "n", "t">>
    /\ \E i \in 1..Len(commits) : ~IsBreaking(commits[i])

\* the twelve known types in their order of priority
TypeOrder ==
    <<<<"f", "e", "a", "t">>,
      <<"f", "i", "x">>,
      <<"d", "o", "c", "s">>,
      <<"s", "t", "y", "l", "e">>,
      <<"r", "e", "f", "a", "c", "t", "o", "r">>,
      <<"p", "e", "r", "f">>,
      <<"t", "e", "s", "t">>,
      <<"b", "u", "i", "l", "d">>,
      <<"c", "i">>,
      <<"c", "h", "o", "r", "e">>,
      <<"r", "e", "v", "e", "r", "t">>,
      <<"s", "e", "c", "u", "r", "i", "t", "y">>>>

\* the section headings of a changelog, top to bottom
SectionHeadings(text) ==
    SelectSeq(SplitLines(text), LAMBDA l : StartsWith(l, <<"#", "#", "#", " ">>))

\* the known types that some commit has, in the order of priority
TypesPresent ==
    SelectSeq(TypeOrder, LAMBDA k : \E i \in 1..Len(commits) : BucketKey(commits[i]) = k)

\* C21: the sections of the changelog are the breaking changes (when some
\* commit is breaking), then the known types that have commits in the order
\* feat, fix, docs, style, refactor, perf, test, build, ci, chore, revert,
\* security, then Other Changes (when some commit has no known type),
\* whatever the order of the commits.
C21_SectionOrder ==
    changelog # None =>
        SectionHeadings(changelog[1]) =
            (IF \E i \in 1..Len(commits) : IsBreaking(commits[i])
             THEN <<BREAKING_HEADING>> ELSE <<>>)
            \o [n \in 1..Len(TypesPresent) |-> HeadingOf(TypesPresent[n])]
            \o (IF \E i \in 1..Len(commits) : BucketKey(commits[i]) = other
                THEN <<OTHER_HEADING>> ELSE <<>>)

C21_Witness ==
    /\ changelog # None
    /\ Len(SectionHeadings(changelog[1])) = 7
    /\ commits[1].subject = <<"u", "p", "d", "a", "t", "e", " ", "r", "e", "a", "d", "m", "e">>
    /\ commits[5].subject = <<"f", "e", "a", "t", ":", " ", "a", "d", "d", " ", "l", "o", "g", "i", "n">>

\* the names of the twelve known types
KnownNames == {TypeOrder[n] : n \in 1..Len(TypeOrder)}

\* the entry of Other Changes for a commit: its subject and its hash
RawEntry(c) == <<"-", " ">> \o c.subject \o <<" ", "(">> \o c.hash \o <<")">>

\* the commits whose type is not a known type, as Other Changes shows them
UnknownEntries ==
    LET cs == SelectSeq(commits, LAMBDA c : parse_commit(c.subject).type \notin KnownNames)
    IN  [n \in 1..Len(cs) |-> RawEntry(cs[n])]

\* C22: Other Changes has exactly the commits whose type is not a known
\* type, each shown with its subject and hash, and such a commit keeps the
\* type that was parsed from its subject.
C22_OtherChanges ==
    /\ changelog # None =>
            SectionEntries(changelog[1], OTHER_HEADING) = UnknownEntries
    /\ grouped # None =>
            /\ \A i \in 1..Len(commits) :
                    commits[i].type = parse_commit(commits[i].subject).type
            /\ \A c \in {dict_get(grouped[1], other)[n] :
                            n \in 1..Len(dict_get(grouped[1], other))} :
                    /\ c.type = parse_commit(c.subject).type
                    /\ c.type \notin KnownNames

C22_Witness ==
    /\ changelog # None
    /\ \E i \in 1..Len(commits) :
            /\ commits[i].subject = <<"w", "i", "p", "!", ":", " ", "y">>
            /\ commits[i].type = <<"w", "i", "p">>
    /\ Len(SectionEntries(changelog[1], OTHER_HEADING)) = 2

RECURSIVE BucketTotal(_)
BucketTotal(d) == IF Len(d) = 0 THEN 0 ELSE Len(d[1].items) + BucketTotal(Tail(d))

\* the places (bucket, position) where the buckets hold this hash
PlacesOf(d, hash) ==
    {<<n, j>> \in (1..Len(d)) \X (1..Len(commits)) :
        j <= Len(d[n].items) /\ d[n].items[j].hash = hash}

\* C26: group_commits puts every commit in exactly one bucket; the buckets
\* are those of known types and "other", and a commit is in the bucket of a
\* known type exactly when that is its type.
C26_Partition ==
    grouped # None =>
        /\ BucketTotal(grouped[1]) = Len(commits)
        /\ \A i \in 1..Len(commits) :
                Cardinality(PlacesOf(grouped[1], commits[i].hash)) = 1
        /\ \A n \in 1..Len(grouped[1]) :
                /\ grouped[1][n].key \in KnownNames \cup {other}
                /\ \A k \in 1..Len(grouped[1]) : grouped[1][k].key = grouped[1][n].key => k = n
        /\ \A i \in 1..Len(commits), k \in KnownNames :
                (\E j \in 1..Len(dict_get(grouped[1], k)) :
                    dict_get(grouped[1], k)[j].hash = commits[i].hash)
                <=> parse_commit(commits[i].subject).type = k

C26_Witness ==
    /\ grouped # None
    /\ Len(grouped[1]) = 3
    /\ Len(commits) = 3
    /\ commits[2].subject = <<"w", "i", "p", "!", ":", " ", "y">>

-----------------------------------------------------------------------------
(* Properties of the table and json formats, checked on SpecList *)

\* main has printed a table or a json document
Listed == lastCall.fn = "main" /\ result # None /\ ~("text" \in DOMAIN result[1])

\* the rows of the table, or the commit records of the json document
Records ==
    IF "table" \in DOMAIN result[1] THEN result[1].table ELSE result[1].json.commits

\* a value of a record, under its json key or its table column
Field(rec, key, column) == IF key \in DOMAIN rec THEN rec[key] ELSE rec[column]

\* the record has the hash of the commit and the type, scope and message
\* that parse_commit gives for its subject
ShowsCommit(rec, c) ==
    /\ Field(rec, "hash", "Hash") = c.hash
    /\ Field(rec, "type", "Type") = parse_commit(c.subject).type
    /\ Field(rec, "scope", "Scope") = parse_commit(c.subject).scope
    /\ Field(rec, "message", "Message") = parse_commit(c.subject).message

\* C24 as stated: one record per commit in input order, each with the type,
\* scope, message and breaking value of parse_commit, in both formats.
C24_RecordsCarryBreaking ==
    Listed =>
        /\ Len(Records) = Len(commits)
        /\ \A i \in 1..Len(commits) :
            /\ ShowsCommit(Records[i], commits[i])
            /\ "breaking" \in DOMAIN Records[i]
            /\ Records[i].breaking = parse_commit(commits[i].subject).breaking

\* C24: one record per commit in input order, each with the hash of the
\* commit and the type, scope and message of parse_commit; a json record has
\* the breaking value too, a table row has the four columns only.
C24_ListsInInputOrder ==
    Listed =>
        /\ Len(Records) = Len(commits)
        /\ \A i \in 1..Len(commits) :
            /\ ShowsCommit(Records[i], commits[i])
            /\ IF "table" \in DOMAIN result[1]
               THEN DOMAIN Records[i] = {"Type", "Scope", "Message", "Hash"}
               ELSE /\ DOMAIN Records[i] = {"hash", "type", "scope", "message", "breaking"}
                    /\ Records[i].breaking = parse_commit(commits[i].subject).breaking

C24_Witness ==
    /\ Listed
    /\ "json" \in DOMAIN result[1]
    /\ Len(commits) = 3
    /\ commits[1].subject = <<"u", "p", "d", "a", "t", "e", " ", "r", "e", "a", "d", "m", "e">>
    /\ commits[2].subject = <<"f", "e", "a", "t", "(", "a", "p", "i", ")", "!", ":", " ", "a", "d", "d", " ", "e", "n", "d", "p", "o", "i", "n", "t">>
    /\ commits[3].subject = <<"w", "i", "p", ":", " ", "x">>
    /\ Records[2].breaking

-----------------------------------------------------------------------------
(* Properties of the output file, checked on SpecWrite *)

\* main has written its changelog to an output file that existed
Rewrote ==
    /\ lastCall.fn = "main"
    /\ env.output
    /\ lastCall.existing # None
    /\ changelog # None
    /\ file # None

\* new is old with block put in at one place
InsertedInto(old, block, new) ==
    \E k \in 0..Len(old) :
        new = SubSeq(old, 1, k) \o block \o SubSeq(old, k + 1, Len(old))

\* old is a title line "# ..." followed by a blank line and the rest
TitleEnd(old) ==
    IF /\ StartsWith(old, <<"#", " ">>)
       /\ SpanNot(old, 1, "\n") + 1 <= Len(old)
       /\ old[SpanNot(old, 1, "\n") + 1] = "\n"
    THEN SpanNot(old, 1, "\n") + 1
    ELSE 0

\* C29: the file written has the whole previous content, in its order, with
\* the new changelog put in as one block; after a title line followed by a
\* blank line the block comes directly after them.
C29_ContentKept ==
    Rewrote =>
        /\ \/ InsertedInto(lastCall.existing[1], changelog[1] \o <<"\n">>, file[1])
           \/ InsertedInto(lastCall.existing[1], <<"\n">> \o changelog[1], file[1])
        /\ TitleEnd(lastCall.existing[1]) > 0 =>
                file[1] = SubSeq(lastCall.existing[1], 1, TitleEnd(lastCall.existing[1]))
                          \o changelog[1] \o <<"\n">>
                          \o SubSeq(lastCall.existing[1],
                                    TitleEnd(lastCall.existing[1]) + 1,
                                    Len(lastCall.existing[1]))

-----------------------------------------------------------------------------
(* Properties of --all-tags, checked on SpecAllTags *)

\* the first line of an entry
FirstLine(text) == SubSeq(text, 1, SpanNot(text, 1, "\n") - 1)

\* the first line of the entry of a version with a date
EntryHeader(name, date) ==
    <<"#", "#", " ">> \o name \o <<" ", "(">> \o date \o <<")">>

\* the tags whose range has commits, newest first
TagsWithCommits == SelectSeq(env.tags, LAMBDA t : t.commits # <<>>)

\* C30: the changelog has one entry per tag whose range has commits, in the
\* order of the tag list, and before them an Unreleased entry exactly when
\* there is a tag and there are commits after the newest tag.
C30_AllTagsEntries ==
    (lastCall.fn = "main" /\ env.all_tags) =>
        /\ [n \in 1..Len(parts) |-> FirstLine(parts[n])] =
                (IF env.tags # <<>> /\ env.head # <<>>
                 THEN <<EntryHeader(UNRELEASED, env.today)>> ELSE <<>>)
                \o [n \in 1..Len(TagsWithCommits) |->
                        EntryHeader(TagsWithCommits[n].name,
                                    SubSeq(TagsWithCommits[n].ai, 1, 10))]
        /\ changelog = Some(join_lines(parts))

C30_Witness ==
    /\ lastCall.fn = "main"
    /\ env.all_tags
    /\ Len(env.tags) = 3
    /\ env.tags[2].commits = <<>>
    /\ Len(parts) = 3
    /\ FirstLine(parts[1]) = EntryHeader(UNRELEASED, env.today)

-----------------------------------------------------------------------------
(* The order of versions, checked on the chain of bumps (Spec) *)

\* the text without its leading "v"s, and the positions where its three
\* numbers end
Body(t) == SubSeq(t, Span(t, 1, {"v"}), Len(t))

MajorEnd(t) == Span(Body(t), 1, IsDigit)

MinorEnd(t) == Span(Body(t), MajorEnd(t) + 1, IsDigit)

PatchEnd(t) == Span(Body(t), MinorEnd(t) + 1, IsDigit)

\* the number a prerelease text ends with, 0 when it ends with none
TrailingNum(t) ==
    LET k == CHOOSE k \in 0..Len(t) :
                /\ \A n \in (Len(t) - k + 1)..Len(t) : t[n] \in IsDigit
                /\ (k = Len(t) \/ t[Len(t) - k] \notin IsDigit)
    IN  int(SubSeq(t, Len(t) - k + 1, Len(t)))

\* (major, minor, patch, 1 for a release and 0 for a prerelease, number)
Key(t) ==
    <<int(SubSeq(Body(t), 1, MajorEnd(t) - 1)),
      int(SubSeq(Body(t), MajorEnd(t) + 1, MinorEnd(t) - 1)),
      int(SubSeq(Body(t), MinorEnd(t) + 1, PatchEnd(t) - 1)),
      IF PatchEnd(t) > Len(Body(t)) THEN 1 ELSE 0,
      IF PatchEnd(t) > Len(Body(t)) THEN 0 ELSE TrailingNum(t)>>

\* a is below b in the order of the components
Below(a, b) ==
    \E n \in 1..5 : a[n] < b[n] /\ \A k \in 1..(n - 1) : a[k] = b[k]

\* C25: the version bump_version returns is above the version it read, and
\* above the version the chain of bumps started from.
C25_StrictlyForward ==
    (lastCall.fn = "bump_version" /\ result # None) =>
        /\ Below(Key(lastCall.current), Key(result[1]))
        /\ Below(Key(origin), Key(result[1]))

C25_Witness ==
    /\ Bumped("prerelease")
    /\ lastCall.current = <<"1", ".", "2", ".", "3", "-">> \o alpha
    /\ origin = lastCall.current
    /\ result = Some(<<"1", ".", "2", ".", "3", "-">> \o alpha \o <<".", "1">>)

-----------------------------------------------------------------------------
(* Properties of the bump command, checked on SpecBump *)

\* the question was asked and answered with yes
Answered(question) ==
    \E n \in 1..Len(asked) :
        asked[n].question = question /\ asked[n].answer

\* create_tag was called
TagCalled == lastCall.fn = "create_tag"

\* C27: bump calls create_tag at most once, never with --dry-run, and only
\* with --yes or after a yes to "Create tag" and, when git status shows
\* uncommitted changes, a yes to "Continue anyway" as well; a run that
\* ended without the tag call made no tag.
C27_TagAuthorised ==
    /\ Len(created) <= 1
    /\ (created # <<>> => TagCalled)
    /\ (TagCalled =>
          /\ ~env.dry_run
          /\ \/ env.yes
             \/ /\ Answered("Create tag")
                /\ has_output(env.status) => Answered("Continue anyway")
          /\ lastCall.args.version = result[1])
    /\ (pc = "done" /\ ~TagCalled => created = <<>>)

C27_Witness ==
    /\ pc = "done"
    /\ created # <<>>
    /\ ~env.yes
    /\ has_output(env.status)
    /\ Len(asked) = 2

-----------------------------------------------------------------------------
(* Properties of the release wizard, checked on SpecRelease *)

\* HEAD has a commit the latest tag does not reach
CommitsToRelease == Len(env.log) > env.tagged

\* the versions one bump away from v0.0.0 with the default identifier
FirstVersions ==
    UNION {{<<"v">> \o str(c[1]) \o <<".">> \o str(c[2]) \o <<".">> \o str(c[3]),
            <<"v">> \o str(c[1]) \o <<".">> \o str(c[2]) \o <<".">> \o str(c[3])
                \o <<"-">> \o alpha \o <<".", "0">>} :
                c \in {<<1, 0, 0>>, <<0, 1, 0>>, <<0, 0, 1>>}}

\* C28: the wizard calls create_tag only when HEAD has commits the latest
\* tag does not reach and after a yes to "Create this release?"; it pushes
\* only with --push, only once the tag exists, and only the new version;
\* without a tag the new version is one bump away from v0.0.0.
C28_ReleaseGuarded ==
    /\ Len(created) <= 1
    /\ (created # <<>> \/ TagCalled =>
          /\ CommitsToRelease
          /\ Answered("Create this release?"))
    /\ (created # <<>> => created[1].version = result[1])
    /\ (pc = "push" \/ pushed # <<>> =>
          /\ env.push
          /\ created # <<>>)
    /\ (pushed # <<>> => pushed = <<created[1].version>>)
    /\ (current = <<>> /\ result # None => result[1] \in FirstVersions)

C28_Witness ==
    /\ pc = "done"
    /\ current = <<>>
    /\ pushed = <<<<"v", "0", ".", "1", ".", "0">>>>
    /\ created # <<>>

====
